---------------------------- MODULE Spec2Model ----------------------------
(***************************************************************************)
(* RTM admin dashboard: the Winners page draw flow, the API client with    *)
(* the auth context and route protection, the Ticket Purchases review      *)
(* page, and the forms of the Tickets, Payment Methods and Settings pages. *)
(* Each part is a state machine of its own (SpecDraw, SpecAuth,            *)
(* SpecPurchases, SpecForms) over its own variables.                       *)
(*                                                                         *)
(* Conventions. A nullable value (number | null, a ref, User | null) is a  *)
(* sequence of length at most one: <<>> is null, <<v>> is v. Text typed by  *)
(* the operator is a sequence of one-character strings, so that parseFloat *)
(* and trim are computed character by character. List indices are the      *)
(* JavaScript ones (0-based); Nth reads a list at such an index.           *)
(***************************************************************************)
EXTENDS Integers, Sequences, FiniteSets, Bags, TLC

VARIABLES
    \* ---- Winners page: component state (part_005 lines 17-29)
    tickets,          \* Ticket[] fetched on mount
    allUsers,         \* User[] shown in the spinner
    selectedTicket,   \* ticket id, "" when none
    prizeAmount,      \* text of the prize input
    isSpinning,
    winnerIndex,      \* number | null
    spinIntervalRef,  \* null, or the interval the ref holds: "live" | "cleared"
    mounted,          \* the page instance is mounted
    \* ---- Winners page: closures, timers and requests in flight
    ticketsInFlight,  \* the getTickets call of the mount effect is outstanding
    draws,            \* bag of the closures of the startSpin calls in progress
    timeouts,         \* pending setTimeout(saveWinner, 500) calls, oldest first
    saving,           \* createWinner requests awaiting their response
    \* ---- Winners page: what the latest step emitted
    toasts,           \* messages handed to showToast, in order
    calls,            \* API requests issued, in order
    \* ---- API client and auth context
    token,            \* localStorage authToken: string | null
    user,             \* AuthProvider state: User | null
    isLoading,        \* AuthProvider state
    checkAuthPc,      \* checkAuth of the mount effect: "mount", "profile", "done"
    signInLoading,    \* SignIn page state isLoading
    requests,         \* bag of the API calls awaiting their response
    thrown,           \* what the latest step threw to its caller, or null
    authCalls,        \* API requests issued by the latest step
    \* ---- Ticket Purchases page: component state (part_006 lines 29-40)
    purchases,        \* TicketPurchase[] of the latest fetch that arrived
    statusFilter,     \* 'all' | 'pending' | 'approved' | 'rejected'
    selectedPurchase, \* TicketPurchase | null
    isDetailModalOpen,
    isProcessing,
    reviewNotes,      \* text of the notes textarea
    currentPage,      \* page of the list shown, from 1
    \* ---- Ticket Purchases page: backend and requests in flight
    server,           \* the backend's status of each purchase
    fetches,          \* bag of the status filters of the list fetches in flight
    details,          \* bag of the purchase ids of the detail loads in flight
    puts,             \* the status updates awaiting their response
    purToasts,        \* messages handed to showToast by the latest step
    purCalls,         \* API requests issued by the latest step
    \* ---- Tickets, Payment Methods and Settings pages: the page shown and
    \* ---- its component state (part_004 18-38, part_007 20-38, Settings 18-30)
    page,             \* the page mounted: "tickets", "payment-methods", "settings"
    isModalOpen,      \* Tickets / PaymentMethods
    isEditing,        \* Tickets / PaymentMethods
    editingId,        \* Tickets / PaymentMethods: string | null
    isSubmitting,     \* Tickets / PaymentMethods
    ticketForm,       \* Tickets formData: name, price, drawDate, image
    methodForm,       \* PaymentMethods formData: name, ibanOrAccount,
                      \* accountHolderName, logo
    settings,         \* Settings: the two URL texts of the inputs
    originalSettings, \* Settings: the two URL texts as last fetched or saved
    settingsLoading,  \* Settings state isLoading
    isSaving,         \* Settings
    \* ---- these pages: requests in flight and what the latest step emitted
    writes,           \* create/update requests awaiting their response, with
                      \* the body each was sent
    settingsFetch,    \* a getAppSettings call is outstanding
    formAlerts,       \* messages handed to alert / showToast, in order
    formCalls         \* API requests issued, in order

drawVars == <<tickets, allUsers, selectedTicket, prizeAmount, isSpinning,
              winnerIndex, spinIntervalRef, mounted, ticketsInFlight, draws,
              timeouts, saving, toasts, calls>>

authVars == <<token, user, isLoading, checkAuthPc, signInLoading, requests,
              thrown, authCalls>>

purVars == <<purchases, statusFilter, selectedPurchase, isDetailModalOpen,
             isProcessing, reviewNotes, currentPage, server, fetches, details, puts,
             purToasts, purCalls>>

formVars == <<page, isModalOpen, isEditing, editingId, isSubmitting, ticketForm,
              methodForm, settings, originalSettings, settingsLoading,
              isSaving, writes, settingsFetch, formAlerts, formCalls>>

vars == <<drawVars, authVars, purVars, formVars>>

\* what the steps of one part leave alone
notDraw == <<authVars, purVars, formVars>>
notAuth == <<drawVars, purVars, formVars>>
notPurchases == <<drawVars, authVars, formVars>>
notForms == <<drawVars, authVars, purVars>>

---------------------------------------------------------------------------
(* Bounds of the model *)

\* startSpin closures alive at once (awaiting users or ticking)
MaxDraws == 2
\* status updates the administrator sends over a backend of more than a page
MaxReviews == 1
\* saveWinner calls pending at once (timeouts set plus requests in flight)
MaxPending == 1
\* API calls of the pages and refreshUser calls awaiting a response at once,
\* and login calls awaiting a response at once
MaxInFlight == 2
\* list fetches of the purchases page in flight at once
MaxFetches == 2
\* detail loads of the purchases page in flight at once
MaxDetails == 1

---------------------------------------------------------------------------
(* Generic helpers *)

Null == <<>>
Some(v) == <<v>>
IsNull(x) == x = <<>>
Val(x) == x[1]

\* list[i] for a JavaScript index i; <<>> (undefined) when out of range
Nth(list, i) == IF i >= 0 /\ i < Len(list) THEN Some(list[i + 1]) ELSE Null

\* Array.prototype.findIndex(u => u._id === id): the first JavaScript index
\* whose element has that id, -1 when there is none
RECURSIVE FindIndexFrom(_, _, _)
FindIndexFrom(list, id, i) ==
    IF i >= Len(list) THEN -1
    ELSE IF list[i + 1].id = id THEN i
    ELSE FindIndexFrom(list, id, i + 1)

RemoveAt(s, i) == SubSeq(s, 1, i - 1) \o SubSeq(s, i + 1, Len(s))

---------------------------------------------------------------------------
(* parseFloat, on the text of a number input *)

Digits == <<"0", "1", "2", "3", "4", "5", "6", "7", "8", "9">>
IsDigit(c) == \E k \in DOMAIN Digits : Digits[k] = c
DigitVal(c) == (CHOOSE k \in DOMAIN Digits : Digits[k] = c) - 1
IsSpace(c) == c = " "

RECURSIVE SkipSpaces(_, _)
SkipSpaces(s, i) ==
    IF i <= Len(s) /\ IsSpace(s[i]) THEN SkipSpaces(s, i + 1) ELSE i

\* the index after the run of digits that starts at i
RECURSIVE DigitRun(_, _)
DigitRun(s, i) ==
    IF i <= Len(s) /\ IsDigit(s[i]) THEN DigitRun(s, i + 1) ELSE i

\* the decimal value of the digits s[i..j-1], continuing from acc
RECURSIVE DigitsValue(_, _, _, _)
DigitsValue(s, i, j, acc) ==
    IF i >= j THEN acc ELSE DigitsValue(s, i + 1, j, 10 * acc + DigitVal(s[i]))

RECURSIVE Pow10(_)
Pow10(k) == IF k = 0 THEN 1 ELSE 10 * Pow10(k - 1)

NaN == [nan |-> TRUE, num |-> 0, den |-> 1]

\* parseFloat(text): leading blanks, an optional sign, digits, an optional
\* point and digits; parsing stops at the first character that does not fit
\* and the result is NaN when no digit was read. The value is num/den.
\* (The exponent part is left out: no modelled input carries one.)
ParseFloat(s) ==
    LET a == SkipSpaces(s, 1)
        signed == a <= Len(s) /\ s[a] \in {"+", "-"}
        neg == signed /\ s[a] = "-"
        b == IF signed THEN a + 1 ELSE a
        c == DigitRun(s, b)
        point == c <= Len(s) /\ s[c] = "."
        e == IF point THEN DigitRun(s, c + 1) ELSE c
        nInt == c - b
        nFrac == IF point THEN e - (c + 1) ELSE 0
        whole == DigitsValue(s, b, c, 0)
        mag == IF point THEN DigitsValue(s, c + 1, e, whole) ELSE whole
    IN  IF nInt + nFrac = 0 THEN NaN
        ELSE [nan |-> FALSE, num |-> IF neg THEN 0 - mag ELSE mag,
              den |-> Pow10(nFrac)]

\* x <= 0 for a parseFloat result: false for NaN
LeqZero(x) == ~x.nan /\ x.num <= 0

---------------------------------------------------------------------------
(* Winners page: data the backend may return and the operator may type *)

AdminA1 == [id |-> "a1", name |-> "Ayesha", role |-> "admin"]
AdminA4 == [id |-> "a4", name |-> "Danish", role |-> "admin"]
UserU2 == [id |-> "u2", name |-> "Bilal", role |-> "user"]
UserU3 == [id |-> "u3", name |-> "Chand", role |-> "user"]

\* Rosters GET /users may return: empty, without an admin, and one with two
\* admins around a plain user
Rosters == { <<>>, <<UserU2>>, <<AdminA1, UserU3, AdminA4>> }

Tickets == << [id |-> "t1", name |-> "Lucky Draw #1"] >>

\* Texts of the prize input: empty, zero, negative, positive
PrizeInputs == { <<>>, <<"0">>, <<"-", "5">>, <<"2", ".", "5">> }

\* the closure of a startSpin call that passed validation: what it captured
\* from its render, and its locals. held: the interval this call set is the
\* one spinIntervalRef.current names.
NewDraw(ticket, prize, ticketList) ==
    [pc |-> "usersLoading", ticket |-> ticket, prize |-> prize,
     tickets |-> ticketList, usersForDisplay |-> <<>>, usersForWinner |-> <<>>,
     currentIndex |-> 0, elapsed |-> FALSE, held |-> FALSE]

---------------------------------------------------------------------------
(* Winners page: pure parts of the handlers *)

\* setState of a component: ignored once the component is unmounted (its
\* state is then the discarded one, see Unmount)
SetState(old, new) == IF mounted THEN new ELSE old

IsAdmin(u) == u.role = "admin"

\* fetchAllUsers: users.filter(user => user.role === 'admin')
AdminUsers(users) == SelectSeq(users, IsAdmin)

\* fetchAllUsers that falls back on the cached list when the fetch fails
FetchAllUsersCached(ok, users) ==
    IF ok
    THEN [allUsers |-> users, adminUsers |-> AdminUsers(users), toasts |-> <<>>]
    ELSE [allUsers |-> allUsers, adminUsers |-> AdminUsers(allUsers),
          toasts |-> <<"Failed to fetch users">>]

\* fetchAllUsers: what it returns and what it reports; a failed fetch is
\* caught and gives two empty lists
FetchAllUsers(ok, users) ==
    IF ok
    THEN [allUsers |-> users, adminUsers |-> AdminUsers(users), toasts |-> <<>>]
    ELSE [allUsers |-> <<>>, adminUsers |-> <<>>,
          toasts |-> <<"Failed to fetch users">>]

\* startSpin's prize test with < in place of <=
PrizeInvalidNegativeOnly(text) ==
    text = <<>> \/ (~ParseFloat(text).nan /\ ParseFloat(text).num < 0)

\* startSpin: !prizeAmount || parseFloat(prizeAmount) <= 0
PrizeInvalid(text) == text = <<>> \/ LeqZero(ParseFloat(text))

\* startSpin's eligibility test without the admin check
NoEligibleAnyUser(usersForDisplay, usersForWinner) ==
    Len(usersForDisplay) = 0

\* startSpin: the two early returns after the fetch
NoEligible(usersForDisplay, usersForWinner) ==
    Len(usersForDisplay) = 0 \/ Len(usersForWinner) = 0

\* startSpin: winnerDisplayIndex >= 0 ? winnerDisplayIndex : 0
WinnerDisplayIndex(usersForDisplay, winnerUser) ==
    LET winnerDisplayIndex == FindIndexFrom(usersForDisplay, winnerUser.id, 0)
    IN  IF winnerDisplayIndex >= 0 THEN winnerDisplayIndex ELSE 0

\* tickets.find(t => t._id === selectedTicket): the ticket or null
FindTicket(list, id) ==
    LET hits == SelectSeq(list, LAMBDA t : t.id = id)
    IN  IF hits = <<>> THEN Null ELSE Some(Head(hits))

\* saveWinner with the user read back from the display, allUsers[winnerIndex],
\* instead of the winnerUser it was handed
WinnerPayloadFromDisplay(winnerUser, selectedTicketData, ticketId, prizeText) ==
    LET shown == IF IsNull(winnerIndex) THEN Null
                 ELSE Nth(allUsers, Val(winnerIndex))
        picked == IF IsNull(shown) THEN winnerUser ELSE Val(shown)
    IN  [name |-> picked.name,
         prize |-> ParseFloat(prizeText),
         ticketName |-> selectedTicketData.name,
         ticketId |-> ticketId,
         userId |-> picked.id]

\* saveWinner reading the ticket and the prize from the state of the page
\* as it is when the timeout fires, not from the render of the press
WinnerPayloadFromState(winnerUser, selectedTicketData, ticketId, prizeText) ==
    [name |-> winnerUser.name,
     prize |-> ParseFloat(prizeAmount),
     ticketName |-> selectedTicketData.name,
     ticketId |-> selectedTicket,
     userId |-> winnerUser.id]

\* saveWinner: the body handed to api.createWinner (drawDate, the current
\* time, is left out)
WinnerPayload(winnerUser, selectedTicketData, ticketId, prizeText) ==
    [name |-> winnerUser.name,
     prize |-> ParseFloat(prizeText),
     ticketName |-> selectedTicketData.name,
     ticketId |-> ticketId,
     userId |-> winnerUser.id]

\* Spin button: disabled while spinning. (The button's other two disjuncts,
\* !selectedTicket and !prizeAmount, repeat startSpin's own early returns; the
\* handler is modelled as callable on such input so that its validation runs.)
SpinDisabled == isSpinning

One(c) == SetToBag({c})

Closures == BagToSet(draws)

\* spinIntervalRef.current = setInterval(...): the ref names the new interval
\* and no longer the one it held
Unhold(ds) ==
    IF \E c \in BagToSet(ds) : c.held
    THEN LET c == CHOOSE c \in BagToSet(ds) : c.held
         IN  (ds (-) One(c)) (+) One([c EXCEPT !.held = FALSE])
    ELSE ds

\* clearInterval(spinIntervalRef.current): the closure whose interval the ref
\* names stops ticking
ClearInterval(ds) ==
    IF \E c \in BagToSet(ds) : c.held
    THEN ds (-) One(CHOOSE c \in BagToSet(ds) : c.held)
    ELSE ds

---------------------------------------------------------------------------
(* Winners page: actions *)

\* the page after its mount effects: fetchWinners() and fetchTickets() issued
DrawMounted ==
    /\ tickets = <<>>
    /\ allUsers = <<>>
    /\ selectedTicket = ""
    /\ prizeAmount = <<>>
    /\ isSpinning = FALSE
    /\ winnerIndex = Null
    /\ spinIntervalRef = Null
    /\ mounted = TRUE
    /\ ticketsInFlight = TRUE
    /\ draws = EmptyBag
    /\ timeouts = <<>>
    /\ saving = <<>>
    /\ toasts = <<>>
    /\ calls = <<"getWinners", "getTickets">>

\* fetchTickets: the response of api.getTickets(true)
TicketsResponse(ok) ==
    /\ ticketsInFlight
    /\ ticketsInFlight' = FALSE
    /\ tickets' = IF ok THEN SetState(tickets, Tickets) ELSE tickets
    /\ toasts' = <<>>
    /\ calls' = <<>>
    /\ UNCHANGED notDraw
    /\ UNCHANGED <<allUsers, selectedTicket, prizeAmount, isSpinning,
                   winnerIndex, spinIntervalRef, mounted, draws, timeouts,
                   saving>>

\* the ticket <select>: its options are "" and the fetched tickets
SelectTicket(id) ==
    /\ mounted
    /\ id = "" \/ \E i \in DOMAIN tickets : tickets[i].id = id
    /\ selectedTicket' = id
    /\ toasts' = <<>>
    /\ calls' = <<>>
    /\ UNCHANGED notDraw
    /\ UNCHANGED <<tickets, allUsers, prizeAmount, isSpinning, winnerIndex,
                   spinIntervalRef, mounted, ticketsInFlight, draws, timeouts,
                   saving>>

\* the prize <Input>
SetPrizeAmount(text) ==
    /\ mounted
    /\ prizeAmount' = text
    /\ toasts' = <<>>
    /\ calls' = <<>>
    /\ UNCHANGED notDraw
    /\ UNCHANGED <<tickets, allUsers, selectedTicket, isSpinning, winnerIndex,
                   spinIntervalRef, mounted, ticketsInFlight, draws, timeouts,
                   saving>>

\* startSpin up to its await: validation, then the user fetch is issued and
\* the closure of this call keeps the render's ticket, prize and tickets
StartSpin ==
    /\ mounted
    /\ ~SpinDisabled
    /\ IF selectedTicket = ""
       THEN /\ toasts' = <<"Please select a ticket">>
            /\ calls' = <<>>
            /\ UNCHANGED draws
       ELSE IF PrizeInvalid(prizeAmount)
       THEN /\ toasts' = <<"Please enter a valid prize amount">>
            /\ calls' = <<>>
            /\ UNCHANGED draws
       ELSE /\ BagCardinality(draws) < MaxDraws
            /\ draws' = draws (+) One(NewDraw(selectedTicket, prizeAmount, tickets))
            /\ toasts' = <<>>
            /\ calls' = <<"getUsers">>
    /\ UNCHANGED notDraw
    /\ UNCHANGED <<tickets, allUsers, selectedTicket, prizeAmount, isSpinning,
                   winnerIndex, spinIntervalRef, mounted, ticketsInFlight,
                   timeouts, saving>>

\* the response of api.getUsers to the call of closure c: the rest of
\* fetchAllUsers, then startSpin from its await to the setInterval call
UsersResponse(c, ok, users) ==
    /\ c \in Closures
    /\ c.pc = "usersLoading"
    /\ LET fetched == FetchAllUsers(ok, users)
           usersForDisplay == fetched.allUsers
           usersForWinner == fetched.adminUsers
           failed == fetched.toasts
       IN  /\ allUsers' = IF ok THEN SetState(allUsers, users) ELSE allUsers
           /\ IF NoEligible(usersForDisplay, usersForWinner)
              THEN /\ toasts' = Append(failed,
                        IF Len(usersForDisplay) = 0 THEN "No users available"
                        ELSE "No admin users available for winner selection")
                   /\ draws' = draws (-) One(c)
                   /\ UNCHANGED <<isSpinning, winnerIndex, spinIntervalRef>>
              ELSE /\ isSpinning' = SetState(isSpinning, TRUE)
                   /\ winnerIndex' = SetState(winnerIndex, Null)
                   /\ spinIntervalRef' = Some("live")
                   /\ draws' = Unhold(draws (-) One(c)) (+)
                         One([c EXCEPT !.pc = "spinning",
                                       !.usersForDisplay = usersForDisplay,
                                       !.usersForWinner = usersForWinner,
                                       !.currentIndex = 0,
                                       !.held = TRUE])
                   /\ toasts' = failed
    /\ calls' = <<>>
    /\ UNCHANGED notDraw
    /\ UNCHANGED <<tickets, selectedTicket, prizeAmount, mounted,
                   ticketsInFlight, timeouts, saving>>

\* the interval callback of closure c before the duration has elapsed
SpinTick(c) ==
    /\ c \in Closures
    /\ c.pc = "spinning"
    /\ ~c.elapsed
    /\ LET currentIndex == (c.currentIndex + 1) % Len(c.usersForDisplay)
       IN  /\ draws' = (draws (-) One(c)) (+)
                          One([c EXCEPT !.currentIndex = currentIndex])
           /\ winnerIndex' = SetState(winnerIndex, Some(currentIndex))
    /\ toasts' = <<>>
    /\ calls' = <<>>
    /\ UNCHANGED notDraw
    /\ UNCHANGED <<tickets, allUsers, selectedTicket, prizeAmount, isSpinning,
                   spinIntervalRef, mounted, ticketsInFlight, timeouts, saving>>

\* the interval callback of closure c once Date.now() - startTime >=
\* spinDuration; random is Math.floor(Math.random() * usersForWinner.length).
\* The clock is not modelled: the duration may have elapsed at any tick, and
\* stays elapsed.
SpinSettle(c, random) ==
    /\ c \in Closures
    /\ c.pc = "spinning"
    /\ Len(timeouts) + Len(saving) < MaxPending
    /\ random >= 0 /\ random < Len(c.usersForWinner)
    /\ LET currentIndex == (c.currentIndex + 1) % Len(c.usersForDisplay)
           winnerUser == c.usersForWinner[random + 1]
           ticked == (draws (-) One(c)) (+)
                         One([c EXCEPT !.currentIndex = currentIndex,
                                       !.elapsed = TRUE])
       IN  /\ winnerIndex' =
                 SetState(winnerIndex,
                          Some(WinnerDisplayIndex(c.usersForDisplay, winnerUser)))
           /\ isSpinning' = SetState(isSpinning, FALSE)
           /\ draws' = IF IsNull(spinIntervalRef) THEN ticked
                       ELSE ClearInterval(ticked)
           /\ spinIntervalRef' = Null
           /\ timeouts' = Append(timeouts,
                                 [winnerUser |-> winnerUser,
                                  ticket |-> c.ticket,
                                  prize |-> c.prize,
                                  tickets |-> c.tickets,
                                  fetched |-> c.usersForDisplay,
                                  cleared |-> c.held /\ ~IsNull(spinIntervalRef)])
    /\ toasts' = <<>>
    /\ calls' = <<>>
    /\ UNCHANGED notDraw
    /\ UNCHANGED <<tickets, allUsers, selectedTicket, prizeAmount, mounted,
                   ticketsInFlight, saving>>

\* the oldest setTimeout fires: saveWinner up to its await
SaveWinner ==
    /\ timeouts # <<>>
    /\ LET t == Head(timeouts)
           selectedTicketData == FindTicket(t.tickets, t.ticket)
       IN  IF IsNull(selectedTicketData)
           THEN /\ toasts' = <<"Error: User or ticket not found">>
                /\ calls' = <<>>
                /\ UNCHANGED saving
           ELSE IF ~IsAdmin(t.winnerUser)
           THEN /\ toasts' = <<"Only admin users can be selected as winners">>
                /\ calls' = <<>>
                /\ UNCHANGED saving
           ELSE /\ saving' = Append(saving,
                                    [fetched |-> t.fetched,
                                     cleared |-> t.cleared,
                                     body |-> WinnerPayload(t.winnerUser,
                                                  Val(selectedTicketData),
                                                  t.ticket, t.prize)])
                /\ toasts' = <<>>
                /\ calls' = <<"createWinner">>
    /\ timeouts' = Tail(timeouts)
    /\ UNCHANGED notDraw
    /\ UNCHANGED <<tickets, allUsers, selectedTicket, prizeAmount, isSpinning,
                   winnerIndex, spinIntervalRef, mounted, ticketsInFlight,
                   draws>>

\* saveWinner whose success path leaves the form as it is
SaveResponseNoReset(i, ok) ==
    /\ i \in DOMAIN saving
    /\ saving' = RemoveAt(saving, i)
    /\ toasts' = IF ok THEN <<"Winner saved successfully!">>
                 ELSE <<"Failed to save winner">>
    /\ calls' = IF ok THEN <<"getWinners">> ELSE <<>>
    /\ UNCHANGED <<selectedTicket, prizeAmount, winnerIndex, allUsers>>
    /\ UNCHANGED notDraw
    /\ UNCHANGED <<tickets, isSpinning, spinIntervalRef, mounted,
                   ticketsInFlight, draws, timeouts>>

\* saveWinner that resets the form on failure as well
SaveResponseAlwaysResets(i, ok) ==
    /\ i \in DOMAIN saving
    /\ saving' = RemoveAt(saving, i)
    /\ toasts' = IF ok THEN <<"Winner saved successfully!">>
                 ELSE <<"Failed to save winner">>
    /\ calls' = IF ok THEN <<"getWinners">> ELSE <<>>
    /\ selectedTicket' = SetState(selectedTicket, "")
    /\ prizeAmount' = SetState(prizeAmount, <<>>)
    /\ winnerIndex' = SetState(winnerIndex, Null)
    /\ allUsers' = SetState(allUsers, <<>>)
    /\ UNCHANGED notDraw
    /\ UNCHANGED <<tickets, isSpinning, spinIntervalRef, mounted,
                   ticketsInFlight, draws, timeouts>>

\* the response of api.createWinner: the rest of saveWinner
SaveResponse(i, ok) ==
    /\ i \in DOMAIN saving
    /\ saving' = RemoveAt(saving, i)
    /\ IF ok
       THEN /\ toasts' = <<"Winner saved successfully!">>
            /\ calls' = <<"getWinners">>
            /\ selectedTicket' = SetState(selectedTicket, "")
            /\ prizeAmount' = SetState(prizeAmount, <<>>)
            /\ winnerIndex' = SetState(winnerIndex, Null)
            /\ allUsers' = SetState(allUsers, <<>>)
       ELSE /\ toasts' = <<"Failed to save winner">>
            /\ calls' = <<>>
            /\ UNCHANGED <<selectedTicket, prizeAmount, winnerIndex, allUsers>>
    /\ UNCHANGED notDraw
    /\ UNCHANGED <<tickets, isSpinning, spinIntervalRef, mounted,
                   ticketsInFlight, draws, timeouts>>

\* the page is torn down: the cleanup of the second effect runs, and React
\* discards the state of the instance (the ref object, which the closures
\* still reach, stays as the cleanup left it)
Unmount ==
    /\ mounted
    /\ mounted' = FALSE
    /\ draws' = IF IsNull(spinIntervalRef) THEN draws ELSE ClearInterval(draws)
    /\ spinIntervalRef' = IF IsNull(spinIntervalRef) THEN Null
                          ELSE Some("cleared")
    /\ tickets' = <<>>
    /\ allUsers' = <<>>
    /\ selectedTicket' = ""
    /\ prizeAmount' = <<>>
    /\ isSpinning' = FALSE
    /\ winnerIndex' = Null
    /\ toasts' = <<>>
    /\ calls' = <<>>
    /\ UNCHANGED notDraw
    /\ UNCHANGED <<ticketsInFlight, timeouts, saving>>

\* no Winners page is mounted
DrawAbsent ==
    /\ tickets = <<>>
    /\ allUsers = <<>>
    /\ selectedTicket = ""
    /\ prizeAmount = <<>>
    /\ isSpinning = FALSE
    /\ winnerIndex = Null
    /\ spinIntervalRef = Null
    /\ mounted = FALSE
    /\ ticketsInFlight = FALSE
    /\ draws = EmptyBag
    /\ timeouts = <<>>
    /\ saving = <<>>
    /\ toasts = <<>>
    /\ calls = <<>>

\* the session the page runs in: signed in, start-up check done
AuthSignedIn ==
    /\ token = Some("t0")
    /\ user = Some([id |-> "a1", name |-> "Ayesha", role |-> "admin"])
    /\ isLoading = FALSE
    /\ checkAuthPc = "done"
    /\ signInLoading = FALSE
    /\ requests = EmptyBag
    /\ thrown = Null
    /\ authCalls = <<>>

\* no Ticket Purchases page is mounted
PurchasesAbsent ==
    /\ purchases = <<>>
    /\ statusFilter = "all"
    /\ selectedPurchase = Null
    /\ isDetailModalOpen = FALSE
    /\ isProcessing = FALSE
    /\ reviewNotes = <<>>
    /\ currentPage = 1
    /\ server = <<>>
    /\ fetches = EmptyBag
    /\ details = EmptyBag
    /\ puts = <<>>
    /\ purToasts = <<>>
    /\ purCalls = <<>>

\* Tickets: formData as useState and handleCloseModal set it. (description,
\* sortOrder, isActive and imagePreview are read by no test of handleSubmit
\* and are left out.) image tells whether a File is held.
EmptyTicketForm ==
    [name |-> <<>>, price |-> <<>>, drawDate |-> <<>>, image |-> FALSE]

\* PaymentMethods: formData as useState and handleCloseModal set it (isActive
\* and logoPreview left out likewise). logo tells whether a File is held.
EmptyMethodForm ==
    [name |-> <<>>, ibanOrAccount |-> <<>>, accountHolderName |-> <<>>,
     logo |-> FALSE]

\* Settings: the state useState gives settings and originalSettings
EmptySettings == [youtubeChannelUrl |-> <<>>, youtubeLiveStreamUrl |-> <<>>]

\* a form page as its component starts, before its mount effect
FormsAtStart ==
    /\ isModalOpen = FALSE
    /\ isEditing = FALSE
    /\ editingId = Null
    /\ isSubmitting = FALSE
    /\ ticketForm = EmptyTicketForm
    /\ methodForm = EmptyMethodForm
    /\ settings = EmptySettings
    /\ originalSettings = EmptySettings
    /\ isSaving = FALSE
    /\ writes = <<>>
    /\ formAlerts = <<>>
    /\ formCalls = <<>>

\* none of the Tickets, Payment Methods and Settings pages is mounted
FormsAbsent ==
    /\ page = "none"
    /\ FormsAtStart
    /\ settingsLoading = FALSE
    /\ settingsFetch = FALSE

InitDraw == DrawMounted /\ AuthSignedIn /\ PurchasesAbsent /\ FormsAbsent

NextDraw ==
    \/ \E ok \in BOOLEAN : TicketsResponse(ok)
    \/ \E t \in DOMAIN Tickets : SelectTicket(Tickets[t].id)
    \/ SelectTicket("")
    \/ \E text \in PrizeInputs : SetPrizeAmount(text)
    \/ StartSpin
    \/ \E c \in Closures, ok \in BOOLEAN, users \in Rosters :
           UsersResponse(c, ok, users)
    \/ \E c \in Closures : SpinTick(c)
    \/ \E c \in Closures, random \in 0..2 : SpinSettle(c, random)
    \/ SaveWinner
    \/ \E i \in 1..MaxPending, ok \in BOOLEAN : SaveResponse(i, ok)
    \/ Unmount

SpecDraw == InitDraw /\ [][NextDraw]_vars

---------------------------------------------------------------------------
(* The settle computation on lists of any content                          *)
(*                                                                         *)
(* The interval callback takes usersForDisplay and usersForWinner from its *)
(* closure. SpecSettle starts a spinning draw on each pair of the lists    *)
(* below, among them pairs in which a winner is no member of the display   *)
(* list, and lets the callback, the timeout and the save run while the     *)
(* operator may edit the two fields.                                       *)

DisplayLists == { <<UserU2>>, <<UserU3, AdminA4>>, <<AdminA1, UserU3, AdminA4>> }

WinnerLists == { <<AdminA1>>, <<AdminA1, AdminA4>> }

InitSettle ==
    /\ tickets = Tickets
    /\ selectedTicket = Tickets[1].id
    /\ prizeAmount = <<"2", ".", "5">>
    /\ isSpinning = TRUE
    /\ winnerIndex = Null
    /\ spinIntervalRef = Some("live")
    /\ mounted = TRUE
    /\ ticketsInFlight = FALSE
    /\ timeouts = <<>>
    /\ saving = <<>>
    /\ toasts = <<>>
    /\ calls = <<>>
    /\ \E display \in DisplayLists, winners \in WinnerLists :
           /\ allUsers = display
           /\ draws = One([NewDraw(selectedTicket, prizeAmount, tickets)
                               EXCEPT !.pc = "spinning",
                                      !.usersForDisplay = display,
                                      !.usersForWinner = winners,
                                      !.held = TRUE])
    /\ AuthSignedIn
    /\ PurchasesAbsent
    /\ FormsAbsent

NextSettle ==
    \/ \E t \in DOMAIN Tickets : SelectTicket(Tickets[t].id)
    \/ SelectTicket("")
    \/ \E text \in PrizeInputs : SetPrizeAmount(text)
    \/ \E c \in Closures : SpinTick(c)
    \/ \E c \in Closures, random \in 0..2 : SpinSettle(c, random)
    \/ SaveWinner
    \/ \E i \in 1..MaxPending, ok \in BOOLEAN : SaveResponse(i, ok)

SpecSettle == InitSettle /\ [][NextSettle]_vars

---------------------------------------------------------------------------
(* API client: what a call makes of the response to its fetch *)

\* localStorage authToken values: the one found at start-up, the one a login
\* returns
StoredToken == "t0"
LoginToken == "t1"

AdminUser == [id |-> "a1", name |-> "Ayesha", role |-> "admin"]

\* fetch(): it rejects (no connection), or resolves to a response with a
\* status and a body; the body is not JSON, or is the envelope
\* {success, error, message} of the backend
NoResponse == [net |-> FALSE, status |-> 0, json |-> FALSE, success |-> FALSE,
               error |-> "", message |-> ""]

Statuses == {200, 401, 500}

Responses ==
    {NoResponse} \cup
    { [net |-> TRUE, status |-> st, json |-> FALSE, success |-> FALSE,
       error |-> "", message |-> ""] : st \in Statuses } \cup
    { [net |-> TRUE, status |-> st, json |-> TRUE, success |-> ok,
       error |-> e, message |-> m] :
          st \in Statuses, ok \in BOOLEAN, e \in {"", "Access denied"},
          m \in {"", "Request failed"} }

Unauthorized == "Unauthorized. Please sign in again."

\* fetch rejects with a TypeError; response.json() throws a SyntaxError
FetchRejected == "TypeError: Failed to fetch"
JsonRejected == "SyntaxError: Unexpected token"

\* the error text with the two fields taken in the other order
ErrorTextMessageFirst(resp, fallback) ==
    IF resp.message # "" THEN resp.message
    ELSE IF resp.error # "" THEN resp.error
    ELSE fallback

\* result.error || result.message || fallback
ErrorText(resp, fallback) ==
    IF resp.error # "" THEN resp.error
    ELSE IF resp.message # "" THEN resp.message
    ELSE fallback

\* the outcome of a call: whether it ran removeToken(), and the message of
\* the Error it threw (null when it returned the data)
Returned == [removes |-> FALSE, error |-> Null]
Threw(removes, message) == [removes |-> removes, error |-> Some(message)]

\* ApiClient.request without the test of the envelope's success flag
RequestStatusOnly(resp) ==
    IF ~resp.net THEN Threw(FALSE, FetchRejected)
    ELSE IF ~resp.json THEN Threw(FALSE, JsonRejected)
    ELSE IF resp.status = 401 THEN Threw(TRUE, Unauthorized)
    ELSE Returned

\* ApiClient.request: the status is looked at first, then the envelope; an
\* Error caught on the way is thrown on as it is
Request(resp) ==
    IF ~resp.net THEN Threw(FALSE, FetchRejected)
    ELSE IF ~resp.json THEN Threw(FALSE, JsonRejected)
    ELSE IF resp.status = 401 THEN Threw(TRUE, Unauthorized)
    ELSE IF ~resp.success THEN Threw(FALSE, ErrorText(resp, "An error occurred"))
    ELSE Returned

\* ApiClient.getUsers: its own fetch, the envelope only
GetUsers(resp) ==
    IF ~resp.net THEN Threw(FALSE, FetchRejected)
    ELSE IF ~resp.json THEN Threw(FALSE, JsonRejected)
    ELSE IF ~resp.success
    THEN Threw(FALSE, ErrorText(resp, "Failed to fetch users"))
    ELSE Returned

\* ApiClient.createTicket (updateTicket, createPaymentMethod and
\* updatePaymentMethod have the same shape): its own fetch, the envelope is
\* looked at first, then the status
CreateTicket(resp) ==
    IF ~resp.net THEN Threw(FALSE, FetchRejected)
    ELSE IF ~resp.json THEN Threw(FALSE, JsonRejected)
    ELSE IF ~resp.success
    THEN Threw(FALSE, ErrorText(resp, "Failed to create ticket"))
    ELSE IF resp.status = 401 THEN Threw(TRUE, Unauthorized)
    ELSE Returned

\* the authenticated operations the pages call: one on the generic request
\* path, the user-list fetch, one multipart call
PageOps == {"updatePurchaseStatus", "getUsers", "createTicket"}

Outcome(op, resp) ==
    CASE op = "getUsers" -> GetUsers(resp)
      [] op = "createTicket" -> CreateTicket(resp)
      [] OTHER -> Request(resp)

\* removeToken() when the call ran it
AfterCall(outcome, stored) == IF outcome.removes THEN Null ELSE stored

---------------------------------------------------------------------------
(* Auth context, route protection and the sign-in page *)

IsAuthenticated == ~IsNull(user)

\* ProtectedRoute without its isLoading branch
ProtectedRouteIgnoresLoading ==
    IF ~IsAuthenticated THEN "Navigate /signin" ELSE "children"

\* ProtectedRoute: what it renders
ProtectedRoute ==
    IF isLoading THEN "Loading..."
    ELSE IF ~IsAuthenticated THEN "Navigate /signin"
    ELSE "children"

\* SignIn: null once authenticated, the form otherwise
SignIn == IF ~isLoading /\ IsAuthenticated THEN "null" ELSE "form"

\* SignIn's effect navigates to the dashboard and the page is left: a later
\* visit starts with its state anew
SignInLeft(loading, current) == ~loading /\ ~IsNull(current)

InFlight(op) == CopiesIn(op, requests)

\* AuthProvider and the sign-in page as constructed, effects not yet run;
\* localStorage holds a token of an earlier session, or none
AuthMounted ==
    /\ token \in {Null, Some(StoredToken)}
    /\ user = Null
    /\ isLoading = TRUE
    /\ checkAuthPc = "mount"
    /\ signInLoading = FALSE
    /\ requests = EmptyBag
    /\ thrown = Null
    /\ authCalls = <<>>

InitAuth == AuthMounted /\ DrawAbsent /\ PurchasesAbsent /\ FormsAbsent

\* the mount effect: checkAuth up to its await, or to its end without a token
CheckAuth ==
    /\ checkAuthPc = "mount"
    /\ IF ~IsNull(token)
       THEN /\ checkAuthPc' = "profile"
            /\ requests' = requests (+) One("checkAuth")
            /\ authCalls' = <<"getProfile">>
            /\ UNCHANGED isLoading
       ELSE /\ checkAuthPc' = "done"
            /\ isLoading' = FALSE
            /\ authCalls' = <<>>
            /\ UNCHANGED requests
    /\ thrown' = Null
    /\ UNCHANGED <<token, user, signInLoading>>
    /\ UNCHANGED notAuth

\* the response to checkAuth's api.getProfile(): the rest of checkAuth
ProfileResponse(resp) ==
    /\ checkAuthPc = "profile"
    /\ InFlight("checkAuth") > 0
    /\ LET outcome == Request(resp)
       IN  IF IsNull(outcome.error)
           THEN /\ user' = Some(AdminUser)
                /\ UNCHANGED token
           ELSE /\ token' = Null
                /\ UNCHANGED user
    /\ isLoading' = FALSE
    /\ checkAuthPc' = "done"
    /\ requests' = requests (-) One("checkAuth")
    /\ signInLoading' = IF SignInLeft(isLoading', user') THEN FALSE
                        ELSE signInLoading
    /\ thrown' = Null
    /\ authCalls' = <<>>
    /\ UNCHANGED notAuth

\* SignIn handleSubmit up to its await: AuthContext.login, api.login
Login ==
    /\ checkAuthPc # "mount"
    /\ SignIn = "form"
    /\ ~signInLoading
    /\ InFlight("login") < MaxInFlight
    /\ signInLoading' = TRUE
    /\ requests' = requests (+) One("login")
    /\ authCalls' = <<"login">>
    /\ thrown' = Null
    /\ UNCHANGED <<token, user, isLoading, checkAuthPc>>
    /\ UNCHANGED notAuth

\* the response to POST /auth/login: the rest of api.login, of
\* AuthContext.login and of handleSubmit. hasUser: the data carries a user.
LoginResponse(resp, hasUser) ==
    /\ InFlight("login") > 0
    /\ requests' = requests (-) One("login")
    /\ LET outcome == Request(resp)
       IN  IF ~IsNull(outcome.error)
           THEN /\ token' = AfterCall(outcome, token)
                /\ thrown' = outcome.error
                /\ UNCHANGED user
           ELSE /\ token' = Some(LoginToken)
                /\ user' = IF hasUser THEN Some(AdminUser) ELSE user
                /\ thrown' = IF hasUser THEN Null
                             ELSE Some("Invalid login response")
    /\ signInLoading' = IF ~IsNull(thrown') \/ SignInLeft(isLoading, user')
                        THEN FALSE ELSE signInLoading
    /\ authCalls' = <<>>
    /\ UNCHANGED <<isLoading, checkAuthPc>>
    /\ UNCHANGED notAuth

\* logout that removes the token and leaves the user in place
LogoutTokenOnly ==
    /\ ProtectedRoute = "children"
    /\ token' = Null
    /\ user' = user
    /\ thrown' = Null
    /\ authCalls' = <<>>
    /\ UNCHANGED <<isLoading, checkAuthPc, signInLoading, requests>>
    /\ UNCHANGED notAuth

\* Layout handleLogout: AuthContext.logout, api.logout
Logout ==
    /\ ProtectedRoute = "children"
    /\ token' = Null
    /\ user' = Null
    /\ thrown' = Null
    /\ authCalls' = <<>>
    /\ UNCHANGED <<isLoading, checkAuthPc, signInLoading, requests>>
    /\ UNCHANGED notAuth

\* AuthContext.refreshUser up to its await, called by a page under a
\* protected route
RefreshUser ==
    /\ ProtectedRoute = "children"
    /\ InFlight("refreshUser") + InFlight("updatePurchaseStatus")
           + InFlight("getUsers") + InFlight("createTicket") < MaxInFlight
    /\ requests' = requests (+) One("refreshUser")
    /\ authCalls' = <<"getProfile">>
    /\ thrown' = Null
    /\ UNCHANGED <<token, user, isLoading, checkAuthPc, signInLoading>>
    /\ UNCHANGED notAuth

\* the response to refreshUser's api.getProfile(): the rest of refreshUser
RefreshResponse(resp) ==
    /\ InFlight("refreshUser") > 0
    /\ requests' = requests (-) One("refreshUser")
    /\ LET outcome == Request(resp)
       IN  IF IsNull(outcome.error)
           THEN /\ user' = Some(AdminUser)
                /\ UNCHANGED token
                /\ thrown' = Null
           ELSE /\ token' = Null
                /\ user' = Null
                /\ thrown' = outcome.error
    /\ signInLoading' = IF SignInLeft(isLoading, user') THEN FALSE
                        ELSE signInLoading
    /\ authCalls' = <<>>
    /\ UNCHANGED <<isLoading, checkAuthPc>>
    /\ UNCHANGED notAuth

\* a page under a protected route calls the API
PageCall(op) ==
    /\ ProtectedRoute = "children"
    /\ InFlight("refreshUser") + InFlight("updatePurchaseStatus")
           + InFlight("getUsers") + InFlight("createTicket") < MaxInFlight
    /\ requests' = requests (+) One(op)
    /\ authCalls' = <<op>>
    /\ thrown' = Null
    /\ UNCHANGED <<token, user, isLoading, checkAuthPc, signInLoading>>
    /\ UNCHANGED notAuth

\* the response to a page's call: the call returns or throws to the page
PageCallResponse(op, resp) ==
    /\ InFlight(op) > 0
    /\ requests' = requests (-) One(op)
    /\ LET outcome == Outcome(op, resp)
       IN  /\ token' = AfterCall(outcome, token)
           /\ thrown' = outcome.error
    /\ authCalls' = <<>>
    /\ UNCHANGED <<user, isLoading, checkAuthPc, signInLoading>>
    /\ UNCHANGED notAuth

NextAuth ==
    \/ CheckAuth
    \/ \E resp \in Responses : ProfileResponse(resp)
    \/ Login
    \/ \E resp \in Responses, hasUser \in BOOLEAN : LoginResponse(resp, hasUser)
    \/ Logout
    \/ RefreshUser
    \/ \E resp \in Responses : RefreshResponse(resp)
    \/ \E op \in PageOps : PageCall(op)
    \/ \E op \in PageOps, resp \in Responses : PageCallResponse(op, resp)

SpecAuth == InitAuth /\ [][NextAuth]_vars

---------------------------------------------------------------------------
(* Ticket Purchases page *)

\* String.prototype.trim on the text of the textarea
IsWhiteSpace(c) == c \in {" ", "\t", "\n"}

RECURSIVE TrimStart(_)
TrimStart(s) ==
    IF s # <<>> /\ IsWhiteSpace(Head(s)) THEN TrimStart(Tail(s)) ELSE s

RECURSIVE TrimEnd(_)
TrimEnd(s) ==
    IF s # <<>> /\ IsWhiteSpace(s[Len(s)])
    THEN TrimEnd(SubSeq(s, 1, Len(s) - 1))
    ELSE s

Trim(s) == TrimEnd(TrimStart(s))

\* handleReject's test with the text compared as it is, not trimmed
NotesEmptyUntrimmed(text) == text = <<>>

\* handleReject: !reviewNotes.trim()
NotesMissing(text) == Trim(text) = <<>>

\* texts of the notes textarea: empty, blank, padded
NotesInputs == { <<>>, <<" ", "\n">>, <<" ", "n", "o", " ">> }

\* ids of the purchases a backend may hold, in the order it lists them
PurchaseIds == <<"p1", "p2", "p3", "p4", "p5", "p6", "p7", "p8", "p9", "p10",
                 "p11">>

StatusFilters == {"all", "pending", "approved", "rejected"}

\* the backend at the start: n purchases, each awaiting its review
PendingServer(n) == [k \in 1..n |-> "pending"]

\* a backend of two purchases
ServerPending == PendingServer(2)

PurchaseAt(srv, k) == [id |-> PurchaseIds[k], status |-> srv[k]]

\* GET /ticket-purchases[?status=...]: the purchases of that status, all of
\* them without the parameter
RECURSIVE ServerListFrom(_, _, _)
ServerListFrom(srv, filter, k) ==
    IF k > Len(srv) THEN <<>>
    ELSE IF filter = "all" \/ srv[k] = filter
    THEN <<PurchaseAt(srv, k)>> \o ServerListFrom(srv, filter, k + 1)
    ELSE ServerListFrom(srv, filter, k + 1)

ServerList(srv, filter) == ServerListFrom(srv, filter, 1)

\* const itemsPerPage
itemsPerPage == 10

\* filteredPurchases: the purchases the search term matches; the search box
\* is left empty, and the empty term is included in every transactionId
FilteredPurchases == purchases

\* Math.ceil(filteredPurchases.length / itemsPerPage)
TotalPages == (Len(FilteredPurchases) + itemsPerPage - 1) \div itemsPerPage

StartIndex == (currentPage - 1) * itemsPerPage

EndIndex == StartIndex + itemsPerPage

\* Array.prototype.slice(start, end) for start, end >= 0
Slice(s, start, end) ==
    LET stop == IF end < Len(s) THEN end ELSE Len(s)
    IN  IF stop <= start THEN <<>>
        ELSE [i \in 1..(stop - start) |-> s[start + i]]

\* the purchases whose cards or rows are rendered
PaginatedPurchases == Slice(FilteredPurchases, StartIndex, EndIndex)

\* the pagination controls are rendered
PaginationShown == Len(FilteredPurchases) > 0

\* the modal is rendered: isDetailModalOpen && selectedPurchase; its overlay
\* covers the page behind it
ModalOpen == isDetailModalOpen /\ ~IsNull(selectedPurchase)

\* the notes and the two buttons are rendered for a pending purchase only
ActionsShown == ModalOpen /\ Val(selectedPurchase).status = "pending"

\* Approve and Reject buttons: disabled while processing. (The Reject
\* button's other disjunct, !reviewNotes.trim(), repeats handleReject's own
\* early return; the handler is modelled as callable on such notes so that
\* its test runs.)
ActionDisabled == isProcessing

\* api.updatePurchaseStatus(id, status, reviewNotes): the PUT and its body;
\* filter is the statusFilter of the render whose fetchPurchases the handler
\* calls afterwards
StatusUpdate(id, status, notes, filter) ==
    [id |-> id, body |-> [status |-> status, reviewNotes |-> notes],
     filter |-> filter]

\* the page after its mount effects: fetchPurchases() issued under 'all'
PurchasesMounted ==
    /\ purchases = <<>>
    /\ statusFilter = "all"
    /\ selectedPurchase = Null
    /\ isDetailModalOpen = FALSE
    /\ isProcessing = FALSE
    /\ reviewNotes = <<>>
    /\ currentPage = 1
    /\ server = ServerPending
    /\ fetches = One("all")
    /\ details = EmptyBag
    /\ puts = <<>>
    /\ purToasts = <<>>
    /\ purCalls = <<"getTicketPurchases">>

InitPurchases == PurchasesMounted /\ DrawAbsent /\ AuthSignedIn /\ FormsAbsent

\* a status filter button; the effect on statusFilter runs fetchPurchases
\* and the effect on [statusFilter, searchTerm] returns to page 1
SetStatusFilter(filter) ==
    /\ ~ModalOpen
    /\ filter # statusFilter
    /\ BagCardinality(fetches) < MaxFetches
    /\ statusFilter' = filter
    /\ fetches' = fetches (+) One(filter)
    /\ purCalls' = <<"getTicketPurchases">>
    /\ purToasts' = <<>>
    /\ currentPage' = 1
    /\ UNCHANGED <<purchases, selectedPurchase, isDetailModalOpen,
                   isProcessing, reviewNotes, server, details, puts>>
    /\ UNCHANGED notPurchases

\* the response of api.getTicketPurchases(status): the rest of fetchPurchases
FetchResponse(filter, ok) ==
    /\ BagIn(filter, fetches)
    /\ fetches' = fetches (-) One(filter)
    /\ purchases' = IF ok THEN ServerList(server, filter) ELSE purchases
    /\ purCalls' = <<>>
    /\ purToasts' = <<>>
    /\ UNCHANGED <<statusFilter, selectedPurchase, isDetailModalOpen,
                   isProcessing, reviewNotes, server, details, puts>>
    /\ UNCHANGED currentPage
    /\ UNCHANGED notPurchases

\* handleViewDetails up to its await, on a purchase of the page shown
HandleViewDetails(id) ==
    /\ ~ModalOpen
    /\ \E k \in DOMAIN PaginatedPurchases : PaginatedPurchases[k].id = id
    /\ BagCardinality(details) < MaxDetails
    /\ details' = details (+) One(id)
    /\ purCalls' = <<"getTicketPurchaseById">>
    /\ purToasts' = <<>>
    /\ UNCHANGED <<purchases, statusFilter, selectedPurchase,
                   isDetailModalOpen, isProcessing, reviewNotes, server,
                   fetches, puts>>
    /\ UNCHANGED currentPage
    /\ UNCHANGED notPurchases

\* the response of api.getTicketPurchaseById: the rest of handleViewDetails
DetailResponse(k, ok) ==
    /\ BagIn(PurchaseIds[k], details)
    /\ details' = details (-) One(PurchaseIds[k])
    /\ IF ok
       THEN /\ selectedPurchase' = Some(PurchaseAt(server, k))
            /\ isDetailModalOpen' = TRUE
            /\ purToasts' = <<>>
       ELSE /\ purToasts' = <<"Failed to load purchase details">>
            /\ UNCHANGED <<selectedPurchase, isDetailModalOpen>>
    /\ purCalls' = <<>>
    /\ UNCHANGED <<purchases, statusFilter, isProcessing, reviewNotes, server,
                   fetches, puts>>
    /\ UNCHANGED currentPage
    /\ UNCHANGED notPurchases

\* the X button of the modal
CloseModal ==
    /\ ModalOpen
    /\ isDetailModalOpen' = FALSE
    /\ selectedPurchase' = Null
    /\ reviewNotes' = <<>>
    /\ purCalls' = <<>>
    /\ purToasts' = <<>>
    /\ UNCHANGED <<purchases, statusFilter, isProcessing, server, fetches,
                   details, puts>>
    /\ UNCHANGED currentPage
    /\ UNCHANGED notPurchases

\* the notes textarea
SetReviewNotes(text) ==
    /\ ActionsShown
    /\ reviewNotes' = text
    /\ purCalls' = <<>>
    /\ purToasts' = <<>>
    /\ UNCHANGED <<purchases, statusFilter, selectedPurchase,
                   isDetailModalOpen, isProcessing, server, fetches, details,
                   puts>>
    /\ UNCHANGED currentPage
    /\ UNCHANGED notPurchases

\* handleApprove up to its await; confirmed is the answer to confirm()
HandleApprove(confirmed) ==
    /\ ActionsShown
    /\ ~ActionDisabled
    /\ IF ~confirmed
       THEN /\ purCalls' = <<>>
            /\ UNCHANGED <<isProcessing, puts>>
       ELSE /\ isProcessing' = TRUE
            /\ puts' = Append(puts,
                   StatusUpdate(Val(selectedPurchase).id, "approved",
                                reviewNotes, statusFilter))
            /\ purCalls' = <<"updatePurchaseStatus">>
    /\ purToasts' = <<>>
    /\ UNCHANGED <<purchases, statusFilter, selectedPurchase,
                   isDetailModalOpen, reviewNotes, server, fetches, details>>
    /\ UNCHANGED currentPage
    /\ UNCHANGED notPurchases

\* handleReject up to its await; confirmed is the answer to confirm()
HandleReject(confirmed) ==
    /\ ActionsShown
    /\ ~ActionDisabled
    /\ IF NotesMissing(reviewNotes)
       THEN /\ purToasts' = <<"Please provide a reason for rejection">>
            /\ purCalls' = <<>>
            /\ UNCHANGED <<isProcessing, puts>>
       ELSE IF ~confirmed
       THEN /\ purToasts' = <<>>
            /\ purCalls' = <<>>
            /\ UNCHANGED <<isProcessing, puts>>
       ELSE /\ isProcessing' = TRUE
            /\ puts' = Append(puts,
                   StatusUpdate(Val(selectedPurchase).id, "rejected",
                                reviewNotes, statusFilter))
            /\ purToasts' = <<>>
            /\ purCalls' = <<"updatePurchaseStatus">>
    /\ UNCHANGED <<purchases, statusFilter, selectedPurchase,
                   isDetailModalOpen, reviewNotes, server, fetches, details>>
    /\ UNCHANGED currentPage
    /\ UNCHANGED notPurchases

\* the response of api.updatePurchaseStatus: the rest of handleApprove or
\* handleReject; the backend stores the status when it answers with success
StatusResponse(ok) ==
    /\ puts # <<>>
    /\ puts' = Tail(puts)
    /\ LET put == Head(puts)
           k == CHOOSE k \in DOMAIN server : PurchaseIds[k] = put.id
       IN  IF ok
           THEN /\ BagCardinality(fetches) < MaxFetches
                /\ server' = [server EXCEPT ![k] = put.body.status]
                /\ reviewNotes' = <<>>
                /\ isDetailModalOpen' = FALSE
                /\ fetches' = fetches (+) One(put.filter)
                /\ purCalls' = <<"getTicketPurchases">>
                /\ purToasts' = << IF put.body.status = "approved"
                                   THEN "Purchase approved successfully"
                                   ELSE "Purchase rejected successfully" >>
           ELSE /\ purCalls' = <<>>
                /\ purToasts' = << IF put.body.status = "approved"
                                   THEN "Failed to approve purchase"
                                   ELSE "Failed to reject purchase" >>
                /\ UNCHANGED <<server, reviewNotes, isDetailModalOpen, fetches>>
    /\ isProcessing' = FALSE
    /\ UNCHANGED <<purchases, statusFilter, selectedPurchase, details>>
    /\ UNCHANGED currentPage
    /\ UNCHANGED notPurchases

\* the Previous button
PreviousPage ==
    /\ ~ModalOpen
    /\ PaginationShown
    /\ currentPage # 1
    /\ currentPage' = (IF currentPage - 1 > 1 THEN currentPage - 1 ELSE 1)
    /\ purCalls' = <<>>
    /\ purToasts' = <<>>
    /\ UNCHANGED <<purchases, statusFilter, selectedPurchase,
                   isDetailModalOpen, isProcessing, reviewNotes, server,
                   fetches, details, puts>>
    /\ UNCHANGED notPurchases

\* one of the numbered page buttons
SetCurrentPage(pageNumber) ==
    /\ ~ModalOpen
    /\ PaginationShown
    /\ pageNumber \in 1..TotalPages
    /\ currentPage' = pageNumber
    /\ purCalls' = <<>>
    /\ purToasts' = <<>>
    /\ UNCHANGED <<purchases, statusFilter, selectedPurchase,
                   isDetailModalOpen, isProcessing, reviewNotes, server,
                   fetches, details, puts>>
    /\ UNCHANGED notPurchases

\* the Next button
NextPage ==
    /\ ~ModalOpen
    /\ PaginationShown
    /\ currentPage # TotalPages
    /\ currentPage' = (IF TotalPages < currentPage + 1 THEN TotalPages
                       ELSE currentPage + 1)
    /\ purCalls' = <<>>
    /\ purToasts' = <<>>
    /\ UNCHANGED <<purchases, statusFilter, selectedPurchase,
                   isDetailModalOpen, isProcessing, reviewNotes, server,
                   fetches, details, puts>>
    /\ UNCHANGED notPurchases

NextPurchases ==
    \/ \E filter \in StatusFilters : SetStatusFilter(filter)
    \/ \E filter \in StatusFilters, ok \in BOOLEAN : FetchResponse(filter, ok)
    \/ \E k \in DOMAIN server : HandleViewDetails(PurchaseIds[k])
    \/ \E k \in DOMAIN server, ok \in BOOLEAN : DetailResponse(k, ok)
    \/ CloseModal
    \/ \E text \in NotesInputs : SetReviewNotes(text)
    \/ \E confirmed \in BOOLEAN : HandleApprove(confirmed)
    \/ \E confirmed \in BOOLEAN : HandleReject(confirmed)
    \/ \E ok \in BOOLEAN : StatusResponse(ok)

SpecPurchases == InitPurchases /\ [][NextPurchases]_vars

---------------------------------------------------------------------------
(* Ticket Purchases page over a backend whose list fills more than a page  *)

\* status updates sent so far: stored by the backend or still in flight
ReviewsMade ==
    Cardinality({k \in DOMAIN server : server[k] # "pending"}) + Len(puts)

\* the page after its mount effects, the backend holding one purchase more
\* than a page shows
InitPages ==
    /\ purchases = <<>>
    /\ statusFilter = "all"
    /\ selectedPurchase = Null
    /\ isDetailModalOpen = FALSE
    /\ isProcessing = FALSE
    /\ reviewNotes = <<>>
    /\ currentPage = 1
    /\ server = PendingServer(itemsPerPage + 1)
    /\ fetches = One("all")
    /\ details = EmptyBag
    /\ puts = <<>>
    /\ purToasts = <<>>
    /\ purCalls = <<"getTicketPurchases">>
    /\ DrawAbsent /\ AuthSignedIn /\ FormsAbsent

\* the filter buttons pressed over this backend: the purchases awaiting
\* their review, and back to all of them
PagesFilters == {"all", "pending"}

\* the notes typed over this backend
PagesNotes == { <<" ", "n", "o", " ">> }

NextPages ==
    \/ \E filter \in PagesFilters : SetStatusFilter(filter)
    \/ \E filter \in PagesFilters, ok \in BOOLEAN : FetchResponse(filter, ok)
    \/ \E k \in DOMAIN server : HandleViewDetails(PurchaseIds[k])
    \/ \E k \in DOMAIN server, ok \in BOOLEAN : DetailResponse(k, ok)
    \/ CloseModal
    \/ \E text \in PagesNotes : SetReviewNotes(text)
    \/ ReviewsMade < MaxReviews /\ \E confirmed \in BOOLEAN : HandleApprove(confirmed)
    \/ ReviewsMade < MaxReviews /\ \E confirmed \in BOOLEAN : HandleReject(confirmed)
    \/ \E ok \in BOOLEAN : StatusResponse(ok)
    \/ PreviousPage
    \/ \E pageNumber \in 1..(TotalPages + 1) : SetCurrentPage(pageNumber)
    \/ NextPage

SpecPages == InitPages /\ [][NextPages]_vars

---------------------------------------------------------------------------
(* Tickets, Payment Methods and Settings pages: the forms                  *)
(*                                                                         *)
(* One of the three pages is mounted. The submit buttons are disabled      *)
(* while isSubmitting / isSaving (and Save while nothing has changed), and *)
(* the modal covers the page behind it; the handlers are otherwise taken   *)
(* on any content of the fields, so that their own tests run. The lists    *)
(* the pages fetch and show are not part of the model.                     *)

FormPages == {"tickets", "payment-methods", "settings"}

\* texts of a text input: empty, blank, filled
TextInputs == { <<>>, <<" ">>, <<"G">> }

\* values of the price input (type number): empty, which is also what the
\* input holds while its content is no number, a negative and a positive one
PriceInputs == { <<>>, <<"-", "5">>, <<"5">> }

DrawDateText == <<"2", "0", "2", "6", "-", "0", "1", "-", "0", "1">>

\* the ticket and the payment method of the lists that Edit opens
ExistingTicket ==
    [id |-> "t1", name |-> <<"G">>, price |-> <<"5">>, drawDate |-> DrawDateText]
ExistingMethod ==
    [id |-> "m1", name |-> <<"G">>, ibanOrAccount |-> <<"G">>,
     accountHolderName |-> <<>>]

HttpsA == <<"h", "t", "t", "p", "s", ":", "/", "/", "a">>

\* texts of a URL input: empty, https, http in capitals, another scheme,
\* no scheme, http with no host
UrlInputs ==
    { <<>>,
      HttpsA,
      <<"H", "T", "T", "P", ":", "/", "/", "a">>,
      <<"f", "t", "p", ":", "/", "/", "a">>,
      <<"a", ".", "b">>,
      <<"h", "t", "t", "p", ":", "/", "/">> }

\* settings the backend may hold
ServerSettings ==
    { EmptySettings,
      [youtubeChannelUrl |-> HttpsA, youtubeLiveStreamUrl |-> <<>>] }

Uppers == <<"A", "B", "C", "D", "E", "F", "G", "H", "I", "J", "K", "L", "M",
            "N", "O", "P", "Q", "R", "S", "T", "U", "V", "W", "X", "Y", "Z">>
Lowers == <<"a", "b", "c", "d", "e", "f", "g", "h", "i", "j", "k", "l", "m",
            "n", "o", "p", "q", "r", "s", "t", "u", "v", "w", "x", "y", "z">>

IsAlpha(c) == \E k \in DOMAIN Uppers : c \in {Uppers[k], Lowers[k]}

ToLowerCase(c) ==
    IF \E k \in DOMAIN Uppers : Uppers[k] = c
    THEN Lowers[CHOOSE k \in DOMAIN Uppers : Uppers[k] = c]
    ELSE c

RECURSIVE SkipSlashes(_)
SkipSlashes(s) ==
    IF s # <<>> /\ Head(s) \in {"/", "\\"} THEN SkipSlashes(Tail(s)) ELSE s

\* new URL(url).protocol, null when the constructor throws. The text is
\* stripped of surrounding blanks; a scheme is a letter followed by letters,
\* digits, + - . up to the first colon, and is lower-cased; with no scheme
\* there is no base to resolve against and the constructor throws; a special
\* scheme (http, https, ftp, ws, wss) with an empty host throws as well.
\* (What else makes a host invalid is left out: no modelled input has it.)
UrlProtocol(url) ==
    LET t == Trim(url)
        colons == {k \in DOMAIN t : t[k] = ":"}
        c == IF colons = {} THEN 0
             ELSE CHOOSE k \in colons : \A j \in colons : k <= j
        wellFormed ==
            /\ c > 1
            /\ IsAlpha(t[1])
            /\ \A k \in 2..(c - 1) :
                   IsAlpha(t[k]) \/ IsDigit(t[k]) \/ t[k] \in {"+", "-", "."}
        scheme == [k \in 1..(c - 1) |-> ToLowerCase(t[k])]
        special == scheme \in { <<"h", "t", "t", "p">>,
                                <<"h", "t", "t", "p", "s">>,
                                <<"f", "t", "p">>,
                                <<"w", "s">>,
                                <<"w", "s", "s">> }
        host == SkipSlashes(SubSeq(t, c + 1, Len(t)))
    IN  IF ~wellFormed THEN Null
        ELSE IF special /\ host = <<>> THEN Null
        ELSE Some(scheme \o <<":">>)

\* Settings.isValidUrl with the protocol test left out
IsValidUrlAnyProtocol(url) == ~IsNull(UrlProtocol(url))

\* Settings.isValidUrl
IsValidUrl(url) ==
    /\ ~IsNull(UrlProtocol(url))
    /\ Val(UrlProtocol(url)) \in { <<"h", "t", "t", "p", ":">>,
                                   <<"h", "t", "t", "p", "s", ":">> }

\* Tickets.handleSubmit: the message of the test that stops the submission
\* before its try block, "" when none does
TicketsInvalid(form, editing) ==
    IF Trim(form.name) = <<>> \/ Trim(form.price) = <<>>
           \/ Trim(form.drawDate) = <<>>
    THEN "Please fill in all required fields"
    ELSE IF ParseFloat(form.price).nan \/ ParseFloat(form.price).num < 0
    THEN "Please enter a valid price"
    ELSE IF ~editing /\ ~form.image
    THEN "Please upload a ticket image"
    ELSE ""

\* PaymentMethods.handleSubmit: likewise
MethodsInvalid(form, editing) ==
    IF Trim(form.name) = <<>> \/ Trim(form.ibanOrAccount) = <<>>
           \/ Trim(form.accountHolderName) = <<>>
    THEN "Please fill in all required fields"
    ELSE IF ~editing /\ ~form.logo
    THEN "Please upload a logo image"
    ELSE ""

\* Settings.handleSave: the message of the URL test that returns, "" when
\* none does
SettingsInvalid(s) ==
    IF s.youtubeChannelUrl # <<>> /\ ~IsValidUrl(s.youtubeChannelUrl)
    THEN "Please enter a valid YouTube channel URL"
    ELSE IF s.youtubeLiveStreamUrl # <<>> /\ ~IsValidUrl(s.youtubeLiveStreamUrl)
    THEN "Please enter a valid YouTube live stream URL"
    ELSE ""

\* Settings: hasChanges as the effect on settings and originalSettings sets it
HasChanges == settings # originalSettings

\* the page p is mounted; Settings starts loading and fetches on mount
FormsMounted(p) ==
    /\ page = p
    /\ FormsAtStart
    /\ settingsLoading = (p = "settings")
    /\ settingsFetch = (p = "settings")

InitForms ==
    /\ \E p \in FormPages : FormsMounted(p)
    /\ DrawAbsent
    /\ AuthSignedIn
    /\ PurchasesAbsent

\* ---- Tickets

\* handleOpenModal(ticket?): Add Ticket, or Edit on the listed ticket
TicketsOpenModal(edit) ==
    /\ page = "tickets"
    /\ ~isModalOpen
    /\ isEditing' = edit
    /\ editingId' = IF edit THEN Some(ExistingTicket.id) ELSE Null
    /\ ticketForm' = IF edit
                     THEN [name |-> ExistingTicket.name,
                           price |-> ExistingTicket.price,
                           drawDate |-> ExistingTicket.drawDate,
                           image |-> FALSE]
                     ELSE EmptyTicketForm
    /\ isModalOpen' = TRUE
    /\ formAlerts' = <<>>
    /\ formCalls' = <<>>
    /\ UNCHANGED <<page, isSubmitting, methodForm, settings, originalSettings,
                   settingsLoading, isSaving, writes, settingsFetch>>
    /\ UNCHANGED notForms

\* handleCloseModal, from the X of the modal
TicketsCloseModal ==
    /\ page = "tickets"
    /\ isModalOpen
    /\ isModalOpen' = FALSE
    /\ isEditing' = FALSE
    /\ editingId' = Null
    /\ ticketForm' = EmptyTicketForm
    /\ formAlerts' = <<>>
    /\ formCalls' = <<>>
    /\ UNCHANGED <<page, isSubmitting, methodForm, settings, originalSettings,
                   settingsLoading, isSaving, writes, settingsFetch>>
    /\ UNCHANGED notForms

\* onChange of the name, price and date inputs
TicketsSetFormData(field, value) ==
    /\ page = "tickets"
    /\ isModalOpen
    /\ ticketForm' = [ticketForm EXCEPT ![field] = value]
    /\ formAlerts' = <<>>
    /\ formCalls' = <<>>
    /\ UNCHANGED <<page, isModalOpen, isEditing, editingId, isSubmitting,
                   methodForm, settings, originalSettings, settingsLoading,
                   isSaving, writes, settingsFetch>>
    /\ UNCHANGED notForms

\* handleImageChange: a file that passes the size and type tests is held,
\* one that fails them is reported and dropped
HandleImageChange(passes) ==
    /\ page = "tickets"
    /\ isModalOpen
    /\ IF passes
       THEN /\ ticketForm' = [ticketForm EXCEPT !.image = TRUE]
            /\ formAlerts' = <<>>
       ELSE /\ formAlerts' = <<"Please select an image file">>
            /\ UNCHANGED ticketForm
    /\ formCalls' = <<>>
    /\ UNCHANGED <<page, isModalOpen, isEditing, editingId, isSubmitting,
                   methodForm, settings, originalSettings, settingsLoading,
                   isSaving, writes, settingsFetch>>
    /\ UNCHANGED notForms

\* handleSubmit, up to its await
TicketsHandleSubmit ==
    /\ page = "tickets"
    /\ isModalOpen
    /\ ~isSubmitting
    /\ LET refused == TicketsInvalid(ticketForm, isEditing)
           body == [name |-> Trim(ticketForm.name),
                    price |-> ParseFloat(ticketForm.price),
                    drawDate |-> ticketForm.drawDate]
       IN  IF refused # ""
           THEN /\ formAlerts' = <<refused>>
                /\ formCalls' = <<>>
                /\ UNCHANGED <<isSubmitting, writes>>
           ELSE IF isEditing /\ ~IsNull(editingId)
           THEN /\ formAlerts' = <<>>
                /\ formCalls' = <<"updateTicket">>
                /\ writes' = Append(writes, [op |-> "updateTicket", body |-> body])
                /\ isSubmitting' = TRUE
           ELSE IF ~ticketForm.image
           THEN \* the return inside try: finally resets the flag
                /\ formAlerts' = <<"Image is required for new tickets">>
                /\ formCalls' = <<>>
                /\ isSubmitting' = FALSE
                /\ UNCHANGED writes
           ELSE /\ formAlerts' = <<>>
                /\ formCalls' = <<"createTicket">>
                /\ writes' = Append(writes, [op |-> "createTicket", body |-> body])
                /\ isSubmitting' = TRUE
    /\ UNCHANGED <<page, isModalOpen, isEditing, editingId, ticketForm,
                   methodForm, settings, originalSettings, settingsLoading,
                   isSaving, settingsFetch>>
    /\ UNCHANGED notForms

\* handleSubmit, from its await on: the create or update call returns or
\* throws
TicketsWriteResponse(ok) ==
    /\ page = "tickets"
    /\ writes # <<>>
    /\ writes' = Tail(writes)
    /\ IF ok
       THEN /\ isModalOpen' = FALSE
            /\ isEditing' = FALSE
            /\ editingId' = Null
            /\ ticketForm' = EmptyTicketForm
            /\ formAlerts' = <<>>
            /\ formCalls' = <<"getTickets">>
       ELSE /\ formAlerts' = <<"Failed to save ticket">>
            /\ formCalls' = <<>>
            /\ UNCHANGED <<isModalOpen, isEditing, editingId, ticketForm>>
    /\ isSubmitting' = FALSE
    /\ UNCHANGED <<page, methodForm, settings, originalSettings,
                   settingsLoading, isSaving, settingsFetch>>
    /\ UNCHANGED notForms

\* ---- Payment Methods

\* handleOpenModal(method?)
MethodsOpenModal(edit) ==
    /\ page = "payment-methods"
    /\ ~isModalOpen
    /\ isEditing' = edit
    /\ editingId' = IF edit THEN Some(ExistingMethod.id) ELSE Null
    /\ methodForm' = IF edit
                     THEN [name |-> ExistingMethod.name,
                           ibanOrAccount |-> ExistingMethod.ibanOrAccount,
                           accountHolderName |-> ExistingMethod.accountHolderName,
                           logo |-> FALSE]
                     ELSE EmptyMethodForm
    /\ isModalOpen' = TRUE
    /\ formAlerts' = <<>>
    /\ formCalls' = <<>>
    /\ UNCHANGED <<page, isSubmitting, ticketForm, settings, originalSettings,
                   settingsLoading, isSaving, writes, settingsFetch>>
    /\ UNCHANGED notForms

\* handleCloseModal, from the X of the modal
MethodsCloseModal ==
    /\ page = "payment-methods"
    /\ isModalOpen
    /\ isModalOpen' = FALSE
    /\ isEditing' = FALSE
    /\ editingId' = Null
    /\ methodForm' = EmptyMethodForm
    /\ formAlerts' = <<>>
    /\ formCalls' = <<>>
    /\ UNCHANGED <<page, isSubmitting, ticketForm, settings, originalSettings,
                   settingsLoading, isSaving, writes, settingsFetch>>
    /\ UNCHANGED notForms

\* onChange of the three text inputs
MethodsSetFormData(field, value) ==
    /\ page = "payment-methods"
    /\ isModalOpen
    /\ methodForm' = [methodForm EXCEPT ![field] = value]
    /\ formAlerts' = <<>>
    /\ formCalls' = <<>>
    /\ UNCHANGED <<page, isModalOpen, isEditing, editingId, isSubmitting,
                   ticketForm, settings, originalSettings, settingsLoading,
                   isSaving, writes, settingsFetch>>
    /\ UNCHANGED notForms

\* handleLogoChange: a file that passes the size and type tests is held, one
\* that fails them is reported and dropped
HandleLogoChange(passes) ==
    /\ page = "payment-methods"
    /\ isModalOpen
    /\ IF passes
       THEN /\ methodForm' = [methodForm EXCEPT !.logo = TRUE]
            /\ formAlerts' = <<>>
       ELSE /\ formAlerts' = <<"Please select an image file">>
            /\ UNCHANGED methodForm
    /\ formCalls' = <<>>
    /\ UNCHANGED <<page, isModalOpen, isEditing, editingId, isSubmitting,
                   ticketForm, settings, originalSettings, settingsLoading,
                   isSaving, writes, settingsFetch>>
    /\ UNCHANGED notForms

\* handleSubmit, up to its await
MethodsHandleSubmit ==
    /\ page = "payment-methods"
    /\ isModalOpen
    /\ ~isSubmitting
    /\ LET refused == MethodsInvalid(methodForm, isEditing)
           body == [name |-> Trim(methodForm.name),
                    ibanOrAccount |-> Trim(methodForm.ibanOrAccount),
                    accountHolderName |-> Trim(methodForm.accountHolderName)]
       IN  IF refused # ""
           THEN /\ formAlerts' = <<refused>>
                /\ formCalls' = <<>>
                /\ UNCHANGED <<isSubmitting, writes>>
           ELSE IF isEditing /\ ~IsNull(editingId)
           THEN /\ formAlerts' = <<>>
                /\ formCalls' = <<"updatePaymentMethod">>
                /\ writes' = Append(writes, [op |-> "updatePaymentMethod", body |-> body])
                /\ isSubmitting' = TRUE
           ELSE IF ~methodForm.logo
           THEN /\ formAlerts' = <<"Logo is required for new payment methods">>
                /\ formCalls' = <<>>
                /\ isSubmitting' = FALSE
                /\ UNCHANGED writes
           ELSE /\ formAlerts' = <<>>
                /\ formCalls' = <<"createPaymentMethod">>
                /\ writes' = Append(writes, [op |-> "createPaymentMethod", body |-> body])
                /\ isSubmitting' = TRUE
    /\ UNCHANGED <<page, isModalOpen, isEditing, editingId, ticketForm,
                   methodForm, settings, originalSettings, settingsLoading,
                   isSaving, settingsFetch>>
    /\ UNCHANGED notForms

\* handleSubmit, from its await on
MethodsWriteResponse(ok) ==
    /\ page = "payment-methods"
    /\ writes # <<>>
    /\ writes' = Tail(writes)
    /\ IF ok
       THEN /\ isModalOpen' = FALSE
            /\ isEditing' = FALSE
            /\ editingId' = Null
            /\ methodForm' = EmptyMethodForm
            /\ formAlerts' = <<IF Head(writes).op = "updatePaymentMethod"
                               THEN "Payment method updated successfully"
                               ELSE "Payment method created successfully">>
            /\ formCalls' = <<"getPaymentMethods">>
       ELSE /\ formAlerts' = <<"Failed to save payment method">>
            /\ formCalls' = <<>>
            /\ UNCHANGED <<isModalOpen, isEditing, editingId, methodForm>>
    /\ isSubmitting' = FALSE
    /\ UNCHANGED <<page, ticketForm, settings, originalSettings,
                   settingsLoading, isSaving, settingsFetch>>
    /\ UNCHANGED notForms

\* ---- Settings

\* fetchSettings, from the Refresh button
FetchSettings ==
    /\ page = "settings"
    /\ ~settingsLoading
    /\ ~settingsFetch
    /\ settingsLoading' = TRUE
    /\ settingsFetch' = TRUE
    /\ formAlerts' = <<>>
    /\ formCalls' = <<"getAppSettings">>
    /\ UNCHANGED <<page, isModalOpen, isEditing, editingId, isSubmitting,
                   ticketForm, methodForm, settings, originalSettings,
                   isSaving, writes>>
    /\ UNCHANGED notForms

\* fetchSettings, from its await on
SettingsResponse(ok, data) ==
    /\ page = "settings"
    /\ settingsFetch
    /\ settingsFetch' = FALSE
    /\ IF ok
       THEN /\ settings' = data
            /\ originalSettings' = data
            /\ formAlerts' = <<>>
       ELSE /\ formAlerts' = <<"Failed to fetch settings">>
            /\ UNCHANGED <<settings, originalSettings>>
    /\ settingsLoading' = FALSE
    /\ formCalls' = <<>>
    /\ UNCHANGED <<page, isModalOpen, isEditing, editingId, isSubmitting,
                   ticketForm, methodForm, isSaving, writes>>
    /\ UNCHANGED notForms

\* onChange of a URL input; handleClear is the change to the empty text
SetSettings(field, url) ==
    /\ page = "settings"
    /\ ~settingsLoading
    /\ settings' = [settings EXCEPT ![field] = url]
    /\ formAlerts' = IF url = <<>> THEN <<"URL cleared">> ELSE <<>>
    /\ formCalls' = <<>>
    /\ UNCHANGED <<page, isModalOpen, isEditing, editingId, isSubmitting,
                   ticketForm, methodForm, originalSettings, settingsLoading,
                   isSaving, writes, settingsFetch>>
    /\ UNCHANGED notForms

\* handleReset
HandleReset ==
    /\ page = "settings"
    /\ ~settingsLoading
    /\ HasChanges
    /\ ~isSaving
    /\ settings' = originalSettings
    /\ formAlerts' = <<"Settings reset to original values">>
    /\ formCalls' = <<>>
    /\ UNCHANGED <<page, isModalOpen, isEditing, editingId, isSubmitting,
                   ticketForm, methodForm, originalSettings, settingsLoading,
                   isSaving, writes, settingsFetch>>
    /\ UNCHANGED notForms

\* handleSave, up to its await: setIsSaving(true), the two URL tests whose
\* return passes through finally, then the request
HandleSave ==
    /\ page = "settings"
    /\ ~settingsLoading
    /\ HasChanges
    /\ ~isSaving
    /\ LET refused == SettingsInvalid(settings)
       IN  IF refused # ""
           THEN /\ formAlerts' = <<refused>>
                /\ formCalls' = <<>>
                /\ isSaving' = FALSE
                /\ UNCHANGED writes
           ELSE /\ formAlerts' = <<>>
                /\ formCalls' = <<"updateAppSettings">>
                /\ writes' = Append(writes, [op |-> "updateAppSettings",
                                            body |-> settings])
                /\ isSaving' = TRUE
    /\ UNCHANGED <<page, isModalOpen, isEditing, editingId, isSubmitting,
                   ticketForm, methodForm, settings, originalSettings,
                   settingsLoading, settingsFetch>>
    /\ UNCHANGED notForms

\* handleSave, from its await on: the backend returns the settings it was
\* sent, or the call throws
UpdateSettingsResponse(ok) ==
    /\ page = "settings"
    /\ writes # <<>>
    /\ writes' = Tail(writes)
    /\ IF ok
       THEN /\ settings' = Head(writes).body
            /\ originalSettings' = Head(writes).body
            /\ formAlerts' = <<"Settings saved successfully!">>
       ELSE /\ formAlerts' = <<"Failed to save settings">>
            /\ UNCHANGED <<settings, originalSettings>>
    /\ isSaving' = FALSE
    /\ formCalls' = <<>>
    /\ UNCHANGED <<page, isModalOpen, isEditing, editingId, isSubmitting,
                   ticketForm, methodForm, settingsLoading, settingsFetch>>
    /\ UNCHANGED notForms

NextForms ==
    \/ \E edit \in BOOLEAN : TicketsOpenModal(edit)
    \/ TicketsCloseModal
    \/ \E value \in TextInputs : TicketsSetFormData("name", value)
    \/ \E value \in PriceInputs : TicketsSetFormData("price", value)
    \/ \E value \in {<<>>, DrawDateText} : TicketsSetFormData("drawDate", value)
    \/ \E passes \in BOOLEAN : HandleImageChange(passes)
    \/ TicketsHandleSubmit
    \/ \E ok \in BOOLEAN : TicketsWriteResponse(ok)
    \/ \E edit \in BOOLEAN : MethodsOpenModal(edit)
    \/ MethodsCloseModal
    \/ \E field \in {"name", "ibanOrAccount", "accountHolderName"},
          value \in TextInputs :
           MethodsSetFormData(field, value)
    \/ \E passes \in BOOLEAN : HandleLogoChange(passes)
    \/ MethodsHandleSubmit
    \/ \E ok \in BOOLEAN : MethodsWriteResponse(ok)
    \/ FetchSettings
    \/ \E ok \in BOOLEAN, data \in ServerSettings : SettingsResponse(ok, data)
    \/ \E field \in {"youtubeChannelUrl", "youtubeLiveStreamUrl"},
          url \in UrlInputs :
           SetSettings(field, url)
    \/ HandleReset
    \/ HandleSave
    \/ \E ok \in BOOLEAN : UpdateSettingsResponse(ok)

SpecForms == InitForms /\ [][NextForms]_vars

---------------------------------------------------------------------------
(* Winners page: properties *)

\* the steps of the user-fetch response, of the settle tick and of the press
UsersResponseStep(users) ==
    \E c \in Closures : UsersResponse(c, TRUE, users)

SettleStep == \E c \in Closures, random \in 0..2 : SpinSettle(c, random)

\* a user of the list has role admin (read off the list itself)
HasAdmin(users) == \E k \in DOMAIN users : users[k].role = "admin"

\* C1: every createWinner request in flight carries the userId of a user that
\* has role admin in the user list fetched for the draw that issued it.
C1_WinnerIsFetchedAdmin ==
    \A i \in DOMAIN saving :
        \E k \in DOMAIN saving[i].fetched :
            /\ saving[i].fetched[k].id = saving[i].body.userId
            /\ saving[i].fetched[k].role = "admin"

\* a request is in flight for a draw whose roster also holds a plain user
C1_Witness ==
    \E i \in DOMAIN saving :
        /\ saving[i].body.userId \in {"a1", "a4"}
        /\ \E k \in DOMAIN saving[i].fetched :
               saving[i].fetched[k].role = "user"

\* C2: when the list fetched after a Spin press is empty or holds no admin,
\* the step reports an error and ends the call: the closure is gone, no
\* interval is set, no save is scheduled or sent, and the spinning flag and
\* the highlighted index are as they were.
C2_NoEligibleAborts ==
    [][\A users \in Rosters :
          (UsersResponseStep(users) /\ ~HasAdmin(users)) =>
              /\ toasts' \in { <<"No users available">>,
                   <<"No admin users available for winner selection">> }
              /\ BagCardinality(draws') = BagCardinality(draws) - 1
              /\ \A c \in BagToSet(draws') :
                     CopiesIn(c, draws') <= CopiesIn(c, draws)
              /\ calls' = <<>>
              /\ UNCHANGED <<spinIntervalRef, isSpinning, winnerIndex,
                             timeouts, saving>>]_vars

\* the fetch of a press returned a roster without an admin and the error is up
C2_Witness ==
    /\ toasts = <<"No admin users available for winner selection">>
    /\ allUsers = <<UserU2>>
    /\ ~isSpinning
    /\ draws = EmptyBag

\* C3: when a spin settles on a mounted page, the highlighted index points
\* into the displayed list allUsers, at a user whose role is admin.
C3_SettledHighlightIsAdmin ==
    [][(SettleStep /\ mounted) =>
          LET shown == Nth(allUsers', Val(winnerIndex'))
          IN  ~IsNull(shown) /\ Val(shown).role = "admin"]_vars

\* C4: a press with no ticket, or with a prize that is empty or <= 0, issues
\* no request, reports one validation error and changes nothing else.
C4_InvalidPressIsRefused ==
    [][(StartSpin /\ (selectedTicket = "" \/ prizeAmount = <<>>
                       \/ LeqZero(ParseFloat(prizeAmount)))) =>
          /\ calls' = <<>>
          /\ toasts' \in { <<"Please select a ticket">>,
                           <<"Please enter a valid prize amount">> }
          /\ UNCHANGED <<tickets, allUsers, selectedTicket, prizeAmount,
                         isSpinning, winnerIndex, spinIntervalRef, mounted,
                         ticketsInFlight, draws, timeouts, saving>>]_vars

\* a press with a ticket selected and a prize of zero was refused
C4_Witness ==
    /\ toasts = <<"Please enter a valid prize amount">>
    /\ selectedTicket # ""
    /\ prizeAmount = <<"0">>

\* C7: a createWinner request is issued only by a draw whose settle step
\* cleared the draw's own interval, so that its index no longer cycles.
C7_SaveOnlyAfterIntervalCleared ==
    \A i \in DOMAIN saving : saving[i].cleared

---------------------------------------------------------------------------
(* API client and auth context: properties *)

\* the response to a page's call arrives with status 401 and a JSON envelope
Response401(op, resp) ==
    PageCallResponse(op, resp) /\ resp.net /\ resp.json /\ resp.status = 401

\* C5: on each of the three paths (generic request, getUsers, multipart), a
\* response with status 401 leaves no token stored and makes the call throw
\* the unauthorized error.
C5_Status401RemovesToken ==
    [][\A op \in PageOps, resp \in Responses :
          Response401(op, resp) =>
              token' = Null /\ thrown' = Some(Unauthorized)]_vars

\* C6: once a 401 response has made the API client remove the stored token,
\* a protected route renders the redirect to /signin.
C6_RedirectAfter401 ==
    [][\A op \in PageOps, resp \in Responses :
          (Response401(op, resp) /\ Outcome(op, resp).removes) =>
              ProtectedRoute' = "Navigate /signin"]_vars

\* C10: at mount, without a token checkAuth issues no request and the user is
\* anonymous; with a token it fetches the profile; a profile that arrives
\* makes the user authenticated; a failure leaves no token stored and the
\* user anonymous; isLoading turns false only in the step that ends the check.
C10_CheckAuthOnMount ==
    [][/\ (CheckAuth /\ IsNull(token)) =>
              authCalls' = <<>> /\ ~isLoading' /\ ~IsAuthenticated'
       /\ (CheckAuth /\ ~IsNull(token)) =>
              authCalls' = <<"getProfile">> /\ isLoading'
       /\ \A resp \in Responses :
              ProfileResponse(resp) =>
                  /\ ~isLoading'
                  /\ IF IsNull(Request(resp).error)
                     THEN IsAuthenticated' /\ token' = token
                     ELSE IsNull(token') /\ ~IsAuthenticated'
       /\ (isLoading /\ ~isLoading') => checkAuthPc' = "done"]_vars

---------------------------------------------------------------------------
(* Ticket Purchases page: properties *)

\* the text holds nothing but white space (read off the text itself)
Blank(text) == \A k \in DOMAIN text : text[k] \in {" ", "\t", "\n"}

RejectStep == \E confirmed \in BOOLEAN : HandleReject(confirmed)

\* C8: a Reject while the notes are empty or all white space sends no PUT and
\* leaves the modal, the notes and the list as they are.
C8_BlankNotesSendNothing ==
    [][(RejectStep /\ Blank(reviewNotes)) =>
          /\ purCalls' = <<>>
          /\ UNCHANGED <<puts, isDetailModalOpen, selectedPurchase,
                         reviewNotes, purchases, isProcessing, server,
                         fetches, statusFilter>>]_vars

\* a Reject on notes of white space only was refused with the modal open
C8_Witness ==
    /\ purToasts = <<"Please provide a reason for rejection">>
    /\ reviewNotes = <<" ", "\n">>
    /\ ActionsShown
    /\ puts = <<>>

\* C9: a confirmed Reject with notes N that are not blank sends one PUT with
\* the body {status: 'rejected', reviewNotes: N}; when that PUT succeeds the
\* list is fetched again under the status filter selected at that moment; and
\* when the last list fetch in flight arrives while 'pending' is selected, no
\* purchase the backend holds as rejected is in the list.
C9_RejectSendsAndRefetches ==
    [][/\ (HandleReject(TRUE) /\ ~Blank(reviewNotes)) =>
              /\ purCalls' = <<"updatePurchaseStatus">>
              /\ puts' = Append(puts,
                     [id |-> Val(selectedPurchase).id,
                      body |-> [status |-> "rejected",
                                reviewNotes |-> reviewNotes],
                      filter |-> statusFilter])
       /\ (StatusResponse(TRUE) /\ Head(puts).body.status = "rejected") =>
              /\ purCalls' = <<"getTicketPurchases">>
              /\ fetches' = fetches (+) One(statusFilter)
       /\ ((\E filter \in StatusFilters : FetchResponse(filter, TRUE))
              /\ fetches' = EmptyBag /\ statusFilter = "pending") =>
              \A k \in DOMAIN purchases' :
                  \A j \in DOMAIN server' :
                      PurchaseIds[j] = purchases'[k].id =>
                          server'[j] # "rejected"]_vars


\* the backend accepted the login: a JSON envelope with success, not a 401
LoginAccepted(resp) ==
    resp.net /\ resp.json /\ resp.status # 401 /\ resp.success

C12_LogoutIsSynchronous ==
    [][Logout =>
          /\ token' = Null
          /\ user' = Null
          /\ authCalls' = <<>>
          /\ requests' = requests
          /\ ~IsAuthenticated'
          /\ ProtectedRoute' = "Navigate /signin"]_vars

\* the operator has logged out while a call of a page was still in flight
C12_Witness ==
    /\ token = Null
    /\ user = Null
    /\ ~isLoading
    /\ IsNull(thrown)
    /\ InFlight("refreshUser") = 0
    /\ \E op \in PageOps : InFlight(op) > 0

---------------------------------------------------------------------------
(* Winners page: further properties *)

\* the intervals that are scheduled: one for each closure that is ticking
Scheduled == {c \in Closures : c.pc = "spinning"}

\* C13: once the Winners page is torn down, no interval started by the draw
\* flow is still scheduled.
C13_NoIntervalAfterTeardown ==
    ~mounted => Scheduled = {}

SaveSucceeds == \E i \in 1..MaxPending : SaveResponse(i, TRUE)

SaveFails == \E i \in 1..MaxPending : SaveResponse(i, FALSE)

\* C14: when the save succeeds, the ticket selection, the prize amount, the
\* highlighted index and the cached user list are reset to their empty values
\* and the winners list is fetched again.
C14_SaveSuccessResetsForm ==
    [][SaveSucceeds =>
          /\ selectedTicket' = ""
          /\ prizeAmount' = <<>>
          /\ winnerIndex' = Null
          /\ allUsers' = <<>>
          /\ calls' = <<"getWinners">>]_vars

\* a save has succeeded on the mounted page and the form is empty
C14_Witness ==
    /\ mounted
    /\ toasts = <<"Winner saved successfully!">>
    /\ calls = <<"getWinners">>
    /\ selectedTicket = ""
    /\ allUsers = <<>>

UsersFetchFails ==
    \E c \in Closures, users \in Rosters : UsersResponse(c, FALSE, users)

C17_ProtectedRouteGate ==
    /\ ProtectedRoute = "children" <=> (~isLoading /\ IsAuthenticated)
    /\ isLoading => ProtectedRoute \notin {"children", "Navigate /signin"}
    /\ (~isLoading /\ ~IsAuthenticated) => ProtectedRoute = "Navigate /signin"

\* a login has completed while the start-up check is still loading: the user
\* is set, and the route still shows the loading screen
C17_Witness ==
    /\ isLoading
    /\ IsAuthenticated
    /\ checkAuthPc = "profile"
    /\ ProtectedRoute = "Loading..."

---------------------------------------------------------------------------
(* Tickets, Payment Methods and Settings forms: properties *)

\* an unsigned decimal number: digits with at most one point
IsUnsignedNumber(text) ==
    /\ \E k \in DOMAIN text : IsDigit(text[k])
    /\ \A k \in DOMAIN text : IsDigit(text[k]) \/ text[k] = "."
    /\ Cardinality({k \in DOMAIN text : text[k] = "."}) <= 1

\* the text begins with http: or https:, in either case of the letters
BeginsHttp(text) ==
    \E n \in {5, 6} :
        /\ Len(text) >= n
        /\ [k \in 1..n |-> ToLowerCase(text[k])]
               \in { <<"h", "t", "t", "p", ":">>,
                     <<"h", "t", "t", "p", "s", ":">> }

\* the ticket form misses a required field, has a price that is no number
\* or a negative one, or is a creation with no image
TicketFormFails ==
    \/ Blank(ticketForm.name) \/ Blank(ticketForm.price)
    \/ Blank(ticketForm.drawDate)
    \/ ~IsUnsignedNumber(ticketForm.price)
    \/ (~isEditing /\ ~ticketForm.image)

\* the payment method form misses a required field, or is a creation with
\* no logo
MethodFormFails ==
    \/ Blank(methodForm.name) \/ Blank(methodForm.ibanOrAccount)
    \/ Blank(methodForm.accountHolderName)
    \/ (~isEditing /\ ~methodForm.logo)

\* one of the two URLs of the settings form is filled and is not http/https
SettingsFormFails ==
    \E field \in {"youtubeChannelUrl", "youtubeLiveStreamUrl"} :
        settings[field] # <<>> /\ ~BeginsHttp(settings[field])

\* C18: a submission of the Tickets, Payment Methods or Settings form that
\* fails the client-side validation issues no request, leaves none in
\* flight, and the submitting / saving flag is false after it.
C18_InvalidSubmissionSendsNothing ==
    [][/\ (TicketsHandleSubmit /\ TicketFormFails) =>
              formCalls' = <<>> /\ writes' = writes /\ ~isSubmitting'
       /\ (MethodsHandleSubmit /\ MethodFormFails) =>
              formCalls' = <<>> /\ writes' = writes /\ ~isSubmitting'
       /\ (HandleSave /\ SettingsFormFails) =>
              formCalls' = <<>> /\ writes' = writes /\ ~isSaving']_vars

\* Save was pressed on a settings form holding an ftp URL and was refused
C18_Witness ==
    /\ page = "settings"
    /\ formAlerts = <<"Please enter a valid YouTube channel URL">>
    /\ settings.youtubeChannelUrl = <<"f", "t", "p", ":", "/", "/", "a">>
    /\ writes = <<>>
    /\ ~isSaving

---------------------------------------------------------------------------
(* API client: further properties *)

\* the response carries an envelope with success: false and its status is
\* not 401
EnvelopeFailure(resp) ==
    resp.net /\ resp.json /\ ~resp.success /\ resp.status # 401

\* the error field of the envelope, else its message field
BackendText(resp) == IF resp.error # "" THEN resp.error ELSE resp.message

\* C19 as stated: every response with success: false and a status other than
\* 401 makes the call throw the error field, else the message field, of the
\* envelope as its message.
C19_BackendErrorVerbatim ==
    [][\A op \in PageOps, resp \in Responses :
          (PageCallResponse(op, resp) /\ EnvelopeFailure(resp)) =>
              thrown' = Some(BackendText(resp))]_vars

\* C19, amended: such a response makes the call throw the error field, else
\* the message field, unmodified when one of the two holds a text; when both
\* are empty the call throws its own fixed text. The stored token is kept.
C19_BackendErrorOrFallback ==
    [][\A op \in PageOps, resp \in Responses :
          (PageCallResponse(op, resp) /\ EnvelopeFailure(resp)) =>
              /\ token' = token
              /\ IF BackendText(resp) # ""
                 THEN thrown' = Some(BackendText(resp))
                 ELSE thrown' = Some(CASE op = "getUsers" -> "Failed to fetch users"
                                       [] op = "createTicket" -> "Failed to create ticket"
                                       [] OTHER -> "An error occurred")]_vars

\* a page's call has thrown the backend's error text and the token is kept
C19_Witness ==
    /\ thrown = Some("Access denied")
    /\ ~IsNull(token)
    /\ IsAuthenticated

\* C20: when the fetch of a request rejects, the call throws the generic
\* connectivity error to its caller, not the error fetch rejected with.
C20_FetchRejectionIsGeneric ==
    [][\A op \in PageOps, resp \in Responses :
          (PageCallResponse(op, resp) /\ ~resp.net) =>
              thrown' = Some("Network error. Please check your connection.")]_vars

---------------------------------------------------------------------------
(* Winners page: double press, settle and save *)

\* C22: every press that passed validation and found an admin chooses and
\* saves at most one winner: the interval of a draw settles once, so no
\* settle step is taken by a draw that has settled before, also when a second
\* press was made while the first was still fetching users.
C22_OneSettlePerPress ==
    [][\A c \in Closures, random \in 0..2 :
          SpinSettle(c, random) => ~c.elapsed]_vars

\* C23: when a spin settles on a mounted page, the highlighted index points
\* into the displayed list allUsers at the very user handed to saveWinner by
\* that settle: the user shown has the id the Winner request will carry.
C23_HighlightIsTheWinner ==
    [][(SettleStep /\ mounted) =>
          LET shown == Nth(allUsers', Val(winnerIndex'))
              winnerUser == timeouts'[Len(timeouts')].winnerUser
          IN  ~IsNull(shown) /\ Val(shown).id = winnerUser.id]_vars

\* C24: no step taken after the Winners page was torn down issues a
\* createWinner request.
C24_NoSaveAfterTeardown ==
    [][~mounted => \A k \in DOMAIN calls' : calls'[k] # "createWinner"]_vars

---------------------------------------------------------------------------
(* Auth context: session invariant *)

\* C25: in every state of the session, a user set in the auth context comes
\* with a stored token.
C25_AuthenticatedHasToken == IsAuthenticated => ~IsNull(token)

---------------------------------------------------------------------------
(* Winners page: the ticking highlight and what is saved *)

TickStep == \E c \in Closures : SpinTick(c)

\* C26: on a mounted page every tick of a spin moves the highlighted index one
\* position on, modulo the length of the displayed list allUsers (counting
\* from 0 when nothing is highlighted yet), so the index stays within
\* 0..length-1 of that list.
C26_TickAdvancesWithinList ==
    [][(TickStep /\ mounted) =>
          LET n == Len(allUsers')
              before == IF IsNull(winnerIndex) THEN 0 ELSE Val(winnerIndex)
          IN  n > 0 /\ winnerIndex' = Some((before + 1) % n)]_vars

C28_SavedAsSelectedAtPress ==
    [][/\ (StartSpin /\ calls' = <<"getUsers">>) =>
              \E c \in BagToSet(draws') :
                  /\ CopiesIn(c, draws') = CopiesIn(c, draws) + 1
                  /\ c.ticket = selectedTicket
                  /\ c.prize = prizeAmount
       /\ ~StartSpin =>
              \A d \in BagToSet(draws') : \E c \in Closures :
                  d.ticket = c.ticket /\ d.prize = c.prize
       /\ \A c \in Closures, random \in 0..2 :
              SpinSettle(c, random) =>
                  /\ timeouts'[Len(timeouts')].ticket = c.ticket
                  /\ timeouts'[Len(timeouts')].prize = c.prize
       /\ (SaveWinner /\ calls' = <<"createWinner">>) =>
              LET body == saving'[Len(saving')].body
                  pressed == Head(timeouts)
              IN  /\ body.ticketId = pressed.ticket
                  /\ body.prize = ParseFloat(pressed.prize)
                  /\ \E t \in DOMAIN Tickets :
                         /\ Tickets[t].id = pressed.ticket
                         /\ Tickets[t].name = body.ticketName]_vars

\* a request is in flight with the ticket and the prize of the press while
\* both fields of the mounted page have been edited since
C28_Witness ==
    /\ mounted
    /\ selectedTicket = ""
    /\ prizeAmount = <<"-", "5">>
    /\ \E i \in DOMAIN saving :
           /\ saving[i].body.ticketId = "t1"
           /\ saving[i].body.prize = ParseFloat(<<"2", ".", "5">>)

---------------------------------------------------------------------------
(* Ticket Purchases page: further properties *)

\* C29: when a list fetch arrives with success and leaves no fetch in flight,
\* the purchases displayed are those the backend lists under the status
\* filter that is selected.
C29_ListMatchesSelectedFilter ==
    [][((\E filter \in StatusFilters : FetchResponse(filter, TRUE))
           /\ fetches' = EmptyBag) =>
          purchases' = ServerList(server', statusFilter')]_vars

\* C30: whenever the filtered list is non-empty, the current page lies
\* between 1 and the total page count and the page shown holds at least one
\* purchase, also after the re-fetch that follows an approve or reject has
\* shrunk the list.
C30_PageWithinRange ==
    Len(FilteredPurchases) > 0 =>
        /\ currentPage \in 1..TotalPages
        /\ PaginatedPurchases # <<>>
===========================================================================
